---------------------------- MODULE Spec2Model ----------------------------
(***************************************************************************)
(* A model of the cmix PAQ8HP predictor (src/src/models/paq8hp.cpp) and of *)
(* the byte-mixer adapter (src/src/mixer/byte-mixer.cpp).                  *)
(*                                                                         *)
(* Machine integers: a U32 is held as a pair <<hi, lo>> of 16-bit limbs,   *)
(* because the 32-bit registers of the global context and the hash values *)
(* use all 32 bits.  Values known to stay below 2^31 are plain integers.   *)
(***************************************************************************)
EXTENDS Integers, Naturals, Sequences, FiniteSets, TLC

VARIABLES
  g,        \* the file-scope global context and Predictor paq8 (one record)
  apm,      \* the six static APMs of Predictor::update: a1..a6
  ret,      \* the value returned by the latest PAQ8Predict, -1 before any
  op,       \* label of the latest operation
  nperc,    \* number of PAQ8Perceive calls made so far
  hist,     \* the bits perceived so far and the value of pos they started at
  store,    \* SpecInst: the storage PAQ8HP instances work on, by storage cell
  calls,    \* SpecInst: the constructor and Perceive calls made, in order
  bm,       \* SpecBM: a ByteMixer object, its LSTM's interface and byte_
  bmop,     \* SpecBM: the latest ByteMixer call and its arguments
  eb,       \* SpecHash: one ContextMap bucket (a ContextMap::E)
  rcm,      \* SpecHash: a RunContextMap (its BH<4> table and cp)
  hop,      \* SpecHash: the latest lookup, its arguments and what it found
  sm,       \* SpecSM: one StateMap (its table t and cxt) and the smoothing knobs
  smop,     \* SpecSM: the latest StateMap::p call, its arguments and result
  mx,       \* SpecMix: a Mixer with its output Mixer mp, and the inputs that drive it
  mxop,     \* SpecMix: the driver's next call and the latest value p() returned
  pipe,     \* SpecPipe: the global context with the statics contextModel2 and its models keep
  pipeop,   \* SpecPipe: the mix and Mixer::set calls of the latest PAQ8Perceive
  cmap,     \* SpecCM: one ContextMap, the globals mix1 reads and the records its run model holds
  cmop,     \* SpecCM: the byte being perceived and what the latest mix1 did
  arena,    \* SpecArena: the level and the static ContextMaps constructed so far
  arop,     \* SpecArena: the latest bucket index computed, its map and hash
  feed,     \* SpecFeed: level, bpos, cxtfl, the input counts of Mixer m and its child, and cn of each ContextMap
  feedop    \* SpecFeed: the latest PAQ8Perceive and what its rescale step found

predVars == <<g, apm, ret, op, nperc, hist>>
instVars == <<store, calls>>
bmVars == <<bm, bmop>>
hashVars == <<eb, rcm, hop>>
smVars == <<sm, smop>>
mixVars == <<mx, mxop>>
pipeVars == <<pipe, pipeop>>
cmVars == <<cmap, cmop>>
arenaVars == <<arena, arop>>
feedVars == <<feed, feedop>>

\* the variables each specification leaves alone
nonPredVars == <<instVars, bmVars, hashVars, smVars, mixVars, pipeVars, cmVars, arenaVars, feedVars>>
nonInstVars == <<predVars, bmVars, hashVars, smVars, mixVars, pipeVars, cmVars, arenaVars, feedVars>>
nonBMVars == <<predVars, instVars, hashVars, smVars, mixVars, pipeVars, cmVars, arenaVars, feedVars>>
nonHashVars == <<predVars, instVars, bmVars, smVars, mixVars, pipeVars, cmVars, arenaVars, feedVars>>
nonSMVars == <<predVars, instVars, bmVars, hashVars, mixVars, pipeVars, cmVars, arenaVars, feedVars>>
nonMixVars == <<predVars, instVars, bmVars, hashVars, smVars, pipeVars, cmVars, arenaVars, feedVars>>
nonPipeVars == <<predVars, instVars, bmVars, hashVars, smVars, mixVars, cmVars, arenaVars, feedVars>>
nonCMVars == <<predVars, instVars, bmVars, hashVars, smVars, mixVars, pipeVars, arenaVars, feedVars>>
nonArenaVars == <<predVars, instVars, bmVars, hashVars, smVars, mixVars, pipeVars, cmVars, feedVars>>
nonFeedVars == <<predVars, instVars, bmVars, hashVars, smVars, mixVars, pipeVars, cmVars, arenaVars>>

-----------------------------------------------------------------------------
(* Fixed-width arithmetic *)

W16 == 65536

Max(a, b) == IF a < b THEN b ELSE a
Min(a, b) == IF a < b THEN a ELSE b

\* C++ >> on a (possibly negative) int: arithmetic shift, i.e. floor division
RECURSIVE Pow2(_)
Pow2(k) == IF k = 0 THEN 1 ELSE 2 * Pow2(k - 1)

Sar(x, k) == x \div Pow2(k)

\* C++ integer division truncates toward zero
CDiv(a, b) == IF a >= 0 THEN a \div b ELSE -((-a) \div b)

\* bitwise operations on naturals below 2^nbits
RECURSIVE XorN(_, _, _)
XorN(a, b, nbits) ==
  IF nbits = 0 THEN 0
  ELSE ((a + b) % 2) + 2 * XorN(a \div 2, b \div 2, nbits - 1)

RECURSIVE AndN(_, _, _)
AndN(a, b, nbits) ==
  IF nbits = 0 THEN 0
  ELSE ((a % 2) * (b % 2)) + 2 * AndN(a \div 2, b \div 2, nbits - 1)

RECURSIVE OrN(_, _, _)
OrN(a, b, nbits) ==
  IF nbits = 0 THEN 0
  ELSE Max(a % 2, b % 2) + 2 * OrN(a \div 2, b \div 2, nbits - 1)

\* U32 as <<hi, lo>>
U32Of(n) == <<(n \div W16) % W16, n % W16>>
Hi(x) == x[1]
Lo(x) == x[2]
U32Zero == <<0, 0>>

\* (a * b) mod 2^16 for 16-bit a, b, without leaving 31 bits
MulLo16(a, b) == ((a * (b % 256)) + ((a * (b \div 256)) % 256) * 256) % W16
\* floor(a * b / 2^16) for 16-bit a, b
MulHi16(a, b) ==
  LET p0 == a * (b % 256)
      p1 == a * (b \div 256)
  IN  ((p0 + (p1 % 256) * 256) \div W16) + (p1 \div 256)

AddU32(x, y) ==
  LET l == Lo(x) + Lo(y)
  IN  <<(Hi(x) + Hi(y) + (l \div W16)) % W16, l % W16>>

MulU32(x, y) ==
  <<(MulHi16(Lo(x), Lo(y)) + MulLo16(Hi(x), Lo(y)) + MulLo16(Lo(x), Hi(y))) % W16,
    MulLo16(Lo(x), Lo(y))>>

\* (x << k) + a mod 2^32, for 0 <= k <= 8 and 0 <= a < 2^16
ShlAdd(x, k, a) ==
  LET l == Lo(x) * Pow2(k) + a
  IN  <<(Hi(x) * Pow2(k) + (l \div W16)) % W16, l % W16>>

\* x >> k for 0 <= k <= 16
ShrU32(x, k) ==
  <<Hi(x) \div Pow2(k), ((Hi(x) % Pow2(k)) * Pow2(16 - k) + (Lo(x) \div Pow2(k))) % W16>>

XorU32(x, y) == <<XorN(Hi(x), Hi(y), 16), XorN(Lo(x), Lo(y), 16)>>
AndU32(x, y) == <<AndN(Hi(x), Hi(y), 16), AndN(Lo(x), Lo(y), 16)>>
OrU32(x, y) == <<OrN(Hi(x), Hi(y), 16), OrN(Lo(x), Lo(y), 16)>>

\* the integer value of a U32 whose top bit is clear
NatOf(x) == Hi(x) * W16 + Lo(x)

-----------------------------------------------------------------------------
(* squash, stretch, hash *)

SquashT ==
  <<1, 2, 3, 6, 10, 16, 27, 45, 73, 120, 194, 310, 488, 747, 1101,
    1546, 2047, 2549, 2994, 3348, 3607, 3785, 3901, 3975, 4022,
    4050, 4068, 4079, 4085, 4089, 4092, 4093, 4094>>

\* int squash(int d)
squash(d) ==
  IF d > 2047 THEN 4095
  ELSE IF d < -2047 THEN 0
  ELSE LET w == d % 128
           i == (d \div 128) + 16
       IN  (SquashT[i + 1] * (128 - w) + SquashT[i + 2] * w + 64) \div 128

\* Stretch::Stretch fills t[pi..squash(x)] = x for x = -2047..2047 and then
\* t[4095] = 2047: t[p] is the least x with squash(x) >= p.  squash is
\* nondecreasing, so the least x is found by bisection.
RECURSIVE StretchSearch(_, _, _)
StretchSearch(p, lo, hi) ==
  IF lo = hi THEN lo
  ELSE LET mid == (lo + hi) \div 2
       IN  IF squash(mid) >= p THEN StretchSearch(p, lo, mid)
           ELSE StretchSearch(p, mid + 1, hi)

stretch(p) == IF p > squash(2047) THEN 2047 ELSE StretchSearch(p, -2047, 2047)

\* inline U32 hash(U32 a, U32 b, U32 c=0xffffffff)
hash(a, b, c) ==
  LET h == AddU32(AddU32(MulU32(a, <<1678, 33091>>), MulU32(b, <<457, 55539>>)),
                  MulU32(c, <<763, 271>>))
  IN  XorU32(XorU32(XorU32(XorU32(h, ShrU32(h, 9)), ShrU32(a, 3)), ShrU32(b, 3)),
             ShrU32(c, 4))

hash2(a, b) == hash(a, b, <<65535, 65535>>)

-----------------------------------------------------------------------------
(* APM *)

\* APM::APM: t[j] = squash((j-16)*128)*16 for j < 33, t[i] = t[i-33] after.
\* The table is held sparsely: a cell that was never written reads as its
\* constructed value.
APMInit(i) == squash(((i % 33) - 16) * 128) * 16

APMNew == [index |-> 0, t |-> <<>>, raw |-> <<APMInit(0), APMInit(1)>>]

APMRead(t, i) == IF i \in DOMAIN t THEN t[i] ELSE APMInit(i)

\* a store into a U16 cell
APMWrite(t, i, v) ==
  [k \in (DOMAIN t) \cup {i} |-> IF k = i THEN v % W16 ELSE t[k]]

\* the anchor update of APM::p: t[i] += (g - t[i]) >> rate, before the U16 store
APMStep(old, rate, yy) ==
  old + Sar((yy * 65536 + yy * Pow2(rate) - yy * 2) - old, rate)

\* the interpolation of APM::p
APMInterp(t0, t1, w) == (t0 * (128 - w) + t1 * w) \div 2048

\* int APM::p(int pr, int cxt, int rate): the new APM and the value returned;
\* raw keeps the two anchor values of this call as computed before the store
APMp(a, pr, cxt, rate, yy) ==
  LET s    == stretch(pr)
      r0   == APMStep(APMRead(a.t, a.index), rate, yy)
      ta   == APMWrite(a.t, a.index, r0)
      r1   == APMStep(APMRead(ta, a.index + 1), rate, yy)
      tb   == APMWrite(ta, a.index + 1, r1)
      w    == s % 128
      idx  == ((s + 2048) \div 128) + cxt * 33
  IN  [a |-> [index |-> idx, t |-> tb, raw |-> <<r0, r1>>],
       p |-> APMInterp(APMRead(tb, idx), APMRead(tb, idx + 1), w)]

-----------------------------------------------------------------------------
(* Global context and Predictor::update *)

WRT_mpw == <<3, 3, 3, 2, 2, 2, 1, 1, 1, 1, 1, 1, 1, 0, 0, 0>>
WRT_mtt == <<0, 0, 1, 2, 3, 4, 5, 5, 6, 6, 6, 6, 6, 7, 7, 7>>
tri == <<0, 4, 3, 7>>
trj == <<0, 6, 6, 12>>

\* '.', 'O', 'M', '!', ')' and '}'-'{'+'P'
Punct == {46, 79, 77, 33, 41, 82}

\* buf.size() after PAQ8Init(level): MEM*8 = (0x10000 << level) * 8
BufSize(level) == Pow2(19 + level)

\* the sparse ring buffer: calloc leaves every cell 0 until it is written
BufRead(b, i) == IF i \in DOMAIN b THEN b[i] ELSE 0
BufWrite_next(b, i, v) ==
  [k \in (DOMAIN b) \cup {i + 1} |-> IF k = i + 1 THEN v % 256 ELSE b[k]]
BufWrite(b, i, v) == [k \in (DOMAIN b) \cup {i} |-> IF k = i THEN v % 256 ELSE b[k]]

\* the file-scope variables after their static initialisers, lines 211-244,
\* 1011 and 1409: buf is an empty Array (n = reserved = 0) until PAQ8Init
GlobalStatic ==
  [level |-> 8, bufn |-> 0, bufres |-> 0, y |-> 0, c0 |-> 1, bpos |-> 0, pos |-> 0,
   b1 |-> 0, b2 |-> 0, b3 |-> 0, b4 |-> 0, b5 |-> 0, b6 |-> 0, b7 |-> 0, b8 |-> 0,
   tt |-> U32Zero, c4 |-> U32Zero, x5 |-> U32Zero, w4 |-> U32Zero, w5 |-> U32Zero,
   f4 |-> U32Zero,
   sm_shft |-> 7, sm_add |-> 65535 + 127, sm_add_y |-> 0,
   fails |-> U32Zero, failz |-> U32Zero, failcount |-> U32Zero,
   buf |-> <<>>, pr |-> 2048]

\* Array::resize as Buf::setsize calls it: within the reserved size only the
\* user size changes; beyond it a zeroed array is created and the first
\* min(i, n) cells are copied
BufResize(s, i) ==
  IF i <= s.bufres THEN [s EXCEPT !.bufn = i]
  ELSE [s EXCEPT !.bufn = i, !.bufres = i,
                 !.buf = [k \in {j \in DOMAIN s.buf : j < Min(i, s.bufn)} |-> s.buf[k]]]

\* void PAQ8Init(int memory)
PAQ8Init(s, memory) == BufResize([s EXCEPT !.level = memory], BufSize(memory))

\* the state a first PAQ8HP(level) constructor leaves
GlobalInit(level) == PAQ8Init(GlobalStatic, level)

\* the adaptive smoothing knobs, Predictor::update lines 1356-1360
Knobs_swapped(s, pos, yy) ==
  IF pos <= 1024 * 1024
  THEN LET shft == IF pos = 512 * 1024 THEN 9
                   ELSE IF pos = 1024 * 1024 THEN 8 ELSE s.sm_shft
           add  == IF pos = 512 * 1024 THEN 65535 + 511
                   ELSE IF pos = 1024 * 1024 THEN 65535 + 255 ELSE s.sm_add
       IN  [sm_shft |-> shft, sm_add |-> add, sm_add_y |-> IF yy = 1 THEN add ELSE 0]
  ELSE [sm_shft |-> s.sm_shft, sm_add |-> s.sm_add, sm_add_y |-> s.sm_add_y]
Knobs(s, pos, yy) ==
  IF pos <= 1024 * 1024
  THEN LET shft == IF pos = 512 * 1024 THEN 8
                   ELSE IF pos = 1024 * 1024 THEN 9 ELSE s.sm_shft
           add  == IF pos = 512 * 1024 THEN 65535 + 255
                   ELSE IF pos = 1024 * 1024 THEN 65535 + 511 ELSE s.sm_add
       IN  [sm_shft |-> shft, sm_add |-> add, sm_add_y |-> IF yy = 1 THEN add ELSE 0]
  ELSE [sm_shft |-> s.sm_shft, sm_add |-> s.sm_add, sm_add_y |-> s.sm_add_y]

\* the 2-bit codes shifted into w4 and w5 on a byte boundary
CodeW4(byte) == WRT_mpw[(byte \div 16) + 1]
CodeW5(byte, prevb1) == IF prevb1 = 12 THEN 2 ELSE WRT_mpw[(byte \div 16) + 1]

\* f4 and tt take the byte after the fold "if (c0==32) --c0"
Fold(byte) == IF byte = 32 THEN 31 ELSE byte

\* the byte-boundary branch of Predictor::update (c0 >= 256), lines 1353-1378
ByteBoundary(s, c0full) ==
  LET byte == c0full - 256
      pos1 == s.pos + 1
      k    == Knobs(s, pos1, s.y)
      w4a  == ShlAdd(s.w4, 2, CodeW4(byte))
      w5a  == ShlAdd(s.w5, 2, CodeW5(byte, s.b1))
      pun  == byte \in Punct
      w5b  == IF pun THEN OrU32(ShlAdd(w5a, 8, 0), <<0, 1023>>) ELSE w5a
      x5b  == IF pun THEN ShlAdd(s.x5, 8, byte) ELSE s.x5
      f4b  == IF pun THEN <<Hi(s.f4), (Lo(s.f4) - (Lo(s.f4) % 16)) + 2>> ELSE s.f4
      w4b  == IF pun /\ byte # 33 /\ byte # 79
              THEN <<Hi(w4a), OrN(Lo(w4a), 12, 16)>> ELSE w4a
      b2b  == IF pun /\ byte # 33 THEN 46 ELSE s.b1
      ttb  == IF pun /\ byte # 33
              THEN <<Hi(s.tt), (Lo(s.tt) - (Lo(s.tt) % 8)) + 1>> ELSE s.tt
  IN  [s EXCEPT
        !.buf = BufWrite(s.buf, s.pos % s.bufn, c0full),
        !.pos = pos1,
        !.sm_shft = k.sm_shft, !.sm_add = k.sm_add, !.sm_add_y = k.sm_add_y,
        !.w4 = w4b, !.w5 = w5b,
        !.b8 = s.b7, !.b7 = s.b6, !.b6 = s.b5, !.b5 = s.b4, !.b4 = s.b3,
        !.b3 = s.b2, !.b2 = b2b, !.b1 = byte,
        !.c4 = ShlAdd(s.c4, 8, byte),
        !.x5 = ShlAdd(x5b, 8, byte),
        !.f4 = ShlAdd(f4b, 4, Fold(byte) \div 16),
        !.tt = ShlAdd(ttb, 3, WRT_mtt[(Fold(byte) \div 16) + 1]),
        !.c0 = 1]

\* "Update global context: pos, bpos, c0, c4, buf", lines 1351-1379
UpdateContext_nodouble(s) ==
  LET c0n == s.c0 + s.y
      s1  == IF c0n >= 256 THEN ByteBoundary(s, c0n) ELSE [s EXCEPT !.c0 = c0n]
  IN  [s1 EXCEPT !.bpos = (s.bpos + 1) % 8]
UpdateContext(s) ==
  LET c0n == s.c0 + s.c0 + s.y
      s1  == IF c0n >= 256 THEN ByteBoundary(s, c0n) ELSE [s EXCEPT !.c0 = c0n]
  IN  [s1 EXCEPT !.bpos = (s.bpos + 1) % 8]

IncU32(x) == AddU32(x, <<0, 1>>)
DecU32(x) == AddU32(x, <<65535, 65535>>)

\* conversions between U32 and int
S32Of(x) ==
  IF Hi(x) < 32768 THEN NatOf(x)
  ELSE -(((65535 - Hi(x)) * W16) + (65535 - Lo(x)) + 1)
U32OfInt(n) ==
  IF n >= 0 THEN U32Of(n)
  ELSE <<65535 - (((-n) - 1) \div W16), 65535 - (((-n) - 1) % W16)>>

\* "if (y) pr^=4095": the last prediction seen from the side of the bit
FoldPr(pr, yy) == IF yy = 1 THEN 4095 - pr ELSE pr

\* the failure counters with the bit leaving the window taken one place late
UpdateFails_bit8(s) ==
  LET fc0 == IF (Lo(s.fails) \div 256) % 2 = 1 THEN DecU32(s.failcount)
             ELSE s.failcount
      f2  == ShlAdd(s.fails, 1, 0)
      z2  == ShlAdd(s.failz, 1, 0)
      q   == FoldPr(s.pr, s.y)
  IN  [s EXCEPT
        !.failcount = IF q >= 1820 THEN IncU32(fc0) ELSE fc0,
        !.fails = IF q >= 1820 THEN IncU32(f2) ELSE f2,
        !.failz = IF q >= 848 THEN IncU32(z2) ELSE z2,
        !.pr = q]

\* the failure counters, lines 1381-1386
UpdateFails(s) ==
  LET fc0 == IF (Lo(s.fails) \div 128) % 2 = 1 THEN DecU32(s.failcount)
             ELSE s.failcount
      f2  == ShlAdd(s.fails, 1, 0)
      z2  == ShlAdd(s.failz, 1, 0)
      q   == FoldPr(s.pr, s.y)
  IN  [s EXCEPT
        !.failcount = IF q >= 1820 THEN IncU32(fc0) ELSE fc0,
        !.fails = IF q >= 1820 THEN IncU32(f2) ELSE f2,
        !.failz = IF q >= 848 THEN IncU32(z2) ELSE z2,
        !.pr = q]

\* the two fixed-coefficient blends of lines 1405-1406
BlendFail_heavy(pt, pu, pv, pz) == (pt * 6 + pu + pv * 12 + pz * 14 + 16) \div 32
BlendFail(pt, pu, pv, pz) == (pt * 6 + pu + pv * 11 + pz * 14 + 16) \div 32
BlendOk(pt, pu, pv, pz) == (pt * 4 + pu * 5 + pv * 12 + pz * 11 + 16) \div 32

\* the a1 pre-blend of line 1392
PreBlend(a1p, pr) == (a1p + 7 * pr + 4) \div 8

\* the APM rate of line 1391
Rate(pos) ==
  6 + (IF pos > 14 * 256 * 1024 THEN 1 ELSE 0) + (IF pos > 28 * 512 * 1024 THEN 1 ELSE 0)

\* pz of lines 1392-1397, an int
FailIndex(s) ==
  LET f  == Lo(s.fails)
      a  == tri[((f \div 32) % 4) + 1] + trj[((f \div 8) % 4) + 1]
            + trj[((f \div 2) % 4) + 1] + (IF f % 2 = 1 THEN 8 ELSE 0)
  IN  CDiv(S32Of(AddU32(s.failcount, U32Of(1 + a))), 2)

\* the APM contexts of lines 1392-1403
CxtA1(s) == s.c0
CxtA4(s) ==
  LET h == hash(U32Of(s.b1), U32Of(Lo(ShrU32(s.x5, 8)) % 256),
                U32Of(AndN(Hi(s.x5), 33023, 16)))
  IN  XorN(s.c0 * 2, (Hi(h) % 2) * W16 + Lo(h), 17)
CxtA2(s) ==
  XorN(s.c0 * 8, Lo(hash2(U32Of(29), U32Of(Lo(s.failz) % 2048))) % 32768, 15)
CxtA5(s) == Lo(hash2(U32Of(s.c0), <<Hi(s.w5) % 16, Lo(s.w5)>>))
CxtA3(s) ==
  XorN(s.c0 * 32,
       Lo(hash2(U32Of(19), <<AndN(Hi(s.x5), 128, 16), Lo(s.x5)>>)) % 32768, 15)
CxtA6(s) ==
  XorN(s.c0 * 4,
       Lo(hash2(U32OfInt(Min(9, FailIndex(s))), <<0, AndN(Lo(s.x5), 33023, 16)>>)),
       16)

\* "Filter the context model with APMs", lines 1389-1406, with mo standing
\* for the value contextModel2() returned.  out keeps every stage's value.
APMChain(s, A, mo) ==
  LET rate == Rate(s.pos)
      r1 == APMp(A.a1, mo, CxtA1(s), 3, s.y)
      pu0 == PreBlend(r1.p, mo)
      r4 == APMp(A.a4, pu0, CxtA4(s), rate, s.y)
      r2 == APMp(A.a2, mo, CxtA2(s), rate + 1, s.y)
      r5 == APMp(A.a5, r2.p, CxtA5(s), rate, s.y)
      r3 == APMp(A.a3, mo, CxtA3(s), rate, s.y)
      r6 == APMp(A.a6, r4.p, CxtA6(s), rate, s.y)
      bf == BlendFail(r3.p, r4.p, r5.p, r6.p)
      bo == BlendOk(r3.p, r4.p, r5.p, r6.p)
  IN  [g |-> [s EXCEPT !.pr = IF Lo(s.fails) % 256 # 0 THEN bf ELSE bo],
       apm |-> [a1 |-> r1.a, a2 |-> r2.a, a3 |-> r3.a, a4 |-> r4.a, a5 |-> r5.a,
                a6 |-> r6.a,
                out |-> [mo |-> mo, a1 |-> r1.p, pu0 |-> pu0, a4 |-> r4.p,
                         a2 |-> r2.p, a5 |-> r5.p, a3 |-> r3.p, a6 |-> r6.p,
                         bf |-> bf, bo |-> bo]]]

\* the static APMs as constructed, before any call
APMsNew ==
  [a1 |-> APMNew, a2 |-> APMNew, a3 |-> APMNew, a4 |-> APMNew, a5 |-> APMNew,
   a6 |-> APMNew,
   out |-> [mo |-> 2048, a1 |-> 2048, pu0 |-> 2048, a4 |-> 2048, a2 |-> 2048,
            a5 |-> 2048, a3 |-> 2048, a6 |-> 2048, bf |-> 2048, bo |-> 2048]]

\* void Predictor::update(), with mo the value contextModel2() returns
PredictorUpdate(s, A, mo) == APMChain(UpdateFails(UpdateContext(s)), A, mo)

\* the assignments of PAQ8Perceive before paq8.update(), lines 1421-1426
SetBit(s, bit) ==
  [s EXCEPT !.y = bit, !.sm_add_y = IF bit # 0 THEN s.sm_add ELSE 0]

\* void PAQ8Perceive(int bit)
PAQ8Perceive(s, A, bit, mo) == PredictorUpdate(SetBit(s, bit), A, mo)

\* int PAQ8Predict(): the value returned and the state it leaves
PAQ8Predict_reset(s) == [ret |-> s.pr, g |-> [s EXCEPT !.pr = 2048]]
PAQ8Predict(s) == [ret |-> s.pr, g |-> s]

-----------------------------------------------------------------------------
(* The predictor driven bit by bit: Spec *)

\* bounds of the exploration
MaxBits == 4        \* perceive calls with freely chosen inputs
MaxRun == 130       \* perceive calls of a run that repeats one input
MaxPredicts == 2    \* predict calls explored within one bit cycle

\* levels PAQ8HP is constructed with, and values contextModel2() returns
LevelSet == {8}
MixOuts == {0, 2048, 4095}

\* the variables of the other specifications, at rest
IdleInst == store = <<>> /\ calls = <<>>
IdleBM == bm = <<>> /\ bmop = <<>>
IdleHash == eb = <<>> /\ rcm = <<>> /\ hop = <<>>
IdleSM == sm = <<>> /\ smop = <<>>
IdleMix == mx = <<>> /\ mxop = <<>>
IdlePipe == pipe = <<>> /\ pipeop = <<>>
IdleCM == cmap = <<>> /\ cmop = <<>>
IdleArena == arena = <<>> /\ arop = <<>>
IdleFeed == feed = <<>> /\ feedop = <<>>
IdlePred ==
  /\ g = GlobalStatic /\ apm = APMsNew /\ ret = -1
  /\ op = [name |-> "init", npred |-> 0, steady |-> TRUE]
  /\ nperc = 0 /\ hist = [bits |-> <<>>, pos0 |-> 0]

Init ==
  /\ IdleInst /\ IdleBM /\ IdleHash /\ IdleSM /\ IdleMix /\ IdlePipe /\ IdleCM /\ IdleArena /\ IdleFeed
  /\ \E lv \in LevelSet : g = GlobalInit(lv)
  /\ apm = APMsNew
  /\ ret = -1
  /\ op = [name |-> "init", npred |-> 0, steady |-> TRUE]
  /\ nperc = 0
  /\ hist = [bits |-> <<>>, pos0 |-> 0]

\* PAQ8HP::Perceive(bit); mo is what contextModel2() returns in this call
Perceive(bit, mo) ==
  /\ \/ nperc < MaxBits
     \/ /\ nperc < MaxRun
        /\ op.steady /\ bit = g.y /\ mo = apm.out.mo
  /\ LET r == PAQ8Perceive(g, apm, bit, mo)
     IN  /\ g' = r.g
         /\ apm' = r.apm
  /\ ret' = -1
  /\ op' = [name |-> "perceive", npred |-> 0,
            steady |-> (nperc = 0) \/ (op.steady /\ bit = g.y /\ mo = apm.out.mo)]
  /\ nperc' = nperc + 1
  /\ hist' = [hist EXCEPT !.bits = Append(hist.bits, bit)]
  /\ UNCHANGED nonPredVars

\* PAQ8HP::Predict()
Predict ==
  /\ op.npred < MaxPredicts
  /\ LET r == PAQ8Predict(g)
     IN  /\ g' = r.g
         /\ ret' = r.ret
  /\ op' = [op EXCEPT !.name = "predict", !.npred = op.npred + 1]
  /\ UNCHANGED <<apm, nperc, hist>>
  /\ UNCHANGED nonPredVars

Next ==
  \/ \E bit \in {0, 1}, mo \in MixOuts : Perceive(bit, mo)
  \/ Predict

vars == <<predVars, instVars, bmVars, hashVars, smVars, mixVars, pipeVars, cmVars, arenaVars, feedVars>>

Spec == Init /\ [][Next]_vars

-----------------------------------------------------------------------------
(* Claims about the predictor, checked under Spec *)

APMs == {apm.a1, apm.a2, apm.a3, apm.a4, apm.a5, apm.a6}

\* C1: predict() returns a value in [0,4095]; with the mixer output in
\* [0,4095] every APM stage output, the a1 pre-blend and both final blends
\* stay in [0,4095]; no APM anchor ever leaves [0,65535] (neither as computed
\* nor as stored)
C1_Ranges ==
  /\ g.pr \in 0..4095
  /\ ret # -1 => ret \in 0..4095
  /\ \A k \in DOMAIN apm.out : apm.out[k] \in 0..4095
  /\ \A a \in APMs :
       /\ a.raw[1] \in 0..65535 /\ a.raw[2] \in 0..65535
       /\ \A i \in DOMAIN a.t : a.t[i] \in 0..65535

\* C1 happens: after perceive calls the prediction sits on the upper limit and
\* an anchor has been pushed onto 65535
C1_Witness ==
  /\ nperc >= 1
  /\ g.pr = 4095
  /\ \E a \in APMs : a.raw[1] = 65535 \/ a.raw[2] = 65535

\* C4: a predict call changes no predictor state and returns the stored
\* prediction, so repeated calls within one bit cycle return the same value;
\* before the first perceive the value is 2048
C4_PredictIdempotent ==
  [][op'.name = "predict" =>
       /\ g' = g /\ apm' = apm /\ nperc' = nperc
       /\ ret' = g.pr
       /\ op.name = "predict" => ret' = ret
       /\ nperc = 0 => ret' = 2048]_vars

\* C4 happens: a second predict call in one bit cycle, after a perceive
C4_Witness ==
  /\ op.name = "predict" /\ op.npred = 2
  /\ nperc >= 1
  /\ ret = g.pr /\ ret # 2048

-----------------------------------------------------------------------------
(* The global context on its own: SpecCtx.                                  *)
(* Predictor::update is taken up to line 1386; the value that lines         *)
(* 1389-1406 (contextModel2 and the APM chain) leave in pr is an input.     *)
(* Besides the constructed state the runs start where a long input of zero  *)
(* bytes has brought the context, just below the two pos thresholds of the  *)
(* smoothing knobs and just below the wrap of the level-0 ring buffer.      *)

MaxBitsCtx == 12     \* perceive calls with freely chosen bits
MaxRunCtx == 26      \* perceive calls of a run that repeats one bit

\* values the prediction pipeline leaves in pr
CtxPr == {2048}

\* numbers of zero bytes already perceived when a run starts
StartPos == {512 * 1024 - 1, 1024 * 1024 - 1, 1024 * 1024}

\* the context after n >= 16 zero bytes, each predicted with pr = 2048
AfterZeros(level, n) ==
  [GlobalInit(level) EXCEPT
     !.pos = n,
     !.w4 = <<65535, 65535>>, !.w5 = <<65535, 65535>>,
     !.sm_shft = IF n >= 1024 * 1024 THEN 9 ELSE IF n >= 512 * 1024 THEN 8 ELSE 7,
     !.sm_add = IF n >= 1024 * 1024 THEN 65535 + 511
                ELSE IF n >= 512 * 1024 THEN 65535 + 255 ELSE 65535 + 127,
     !.fails = <<65535, 65535>>, !.failz = <<65535, 65535>>,
     !.failcount = <<0, 8>>,
     !.pr = 2048]

\* the context after the bits of b, each predicted with pr = 2048
RECURSIVE AfterBits(_, _)
AfterBits(s, b) ==
  IF b = <<>> THEN s
  ELSE AfterBits([UpdateFails(UpdateContext(SetBit(s, Head(b)))) EXCEPT !.pr = 2048],
                 Tail(b))

\* the context after a first byte 12
AfterFormFeed == AfterBits(GlobalInit(0), <<0, 0, 0, 0, 1, 1, 0, 0>>)

CtxStarts ==
  {GlobalInit(0), AfterFormFeed} \cup {AfterZeros(0, n) : n \in StartPos}

InitCtx ==
  /\ IdleInst /\ IdleBM /\ IdleHash /\ IdleSM /\ IdleMix /\ IdlePipe /\ IdleCM /\ IdleArena /\ IdleFeed
  /\ g \in CtxStarts
  /\ apm = APMsNew
  /\ ret = -1
  /\ op = [name |-> "init", npred |-> 0, steady |-> TRUE]
  /\ nperc = 0
  /\ hist = [bits |-> <<>>, pos0 |-> g.pos]

\* PAQ8Perceive(bit) with p the prediction it ends with
PerceiveCtx(bit, p) ==
  /\ \/ nperc < MaxBitsCtx
     \/ nperc < MaxRunCtx /\ op.steady /\ bit = g.y
  /\ g' = [UpdateFails(UpdateContext(SetBit(g, bit))) EXCEPT !.pr = p]
  /\ op' = [name |-> "perceive", npred |-> 0,
            steady |-> (nperc = 0) \/ (op.steady /\ bit = g.y)]
  /\ nperc' = nperc + 1
  /\ hist' = [hist EXCEPT !.bits = Append(hist.bits, bit)]
  /\ UNCHANGED <<apm, ret>>
  /\ UNCHANGED nonPredVars

NextCtx == \E bit \in {0, 1}, p \in CtxPr : PerceiveCtx(bit, p)

SpecCtx == InitCtx /\ [][NextCtx]_vars

-----------------------------------------------------------------------------
(* Claims about the global context, checked under SpecCtx *)

\* the number whose binary digits are the bits of b, first bit highest
RECURSIVE BitsValue(_)
BitsValue(b) ==
  IF b = <<>> THEN 0 ELSE 2 * BitsValue(SubSeq(b, 1, Len(b) - 1)) + b[Len(b)]

\* the last k bits perceived
LastBits(k) == SubSeq(hist.bits, Len(hist.bits) - k + 1, Len(hist.bits))

\* C2: after every perceive call 1 <= c0 <= 255 and c0 >> bpos == 1, c0
\* being a leading 1 followed by the bpos bits perceived since the last byte
\* boundary, most recent lowest; bpos == 0 implies c0 == 1
C2_PartialByte ==
  nperc > 0 =>
    /\ g.c0 \in 1..255
    /\ g.c0 \div Pow2(g.bpos) = 1
    /\ g.c0 = Pow2(g.bpos) + BitsValue(LastBits(g.bpos))
    /\ g.bpos = 0 => g.c0 = 1

\* C2 happens: three bits 1, 0, 1 into the second byte
C2_Witness ==
  /\ nperc = 11
  /\ g.bpos = 3 /\ g.c0 = 13
  /\ g.pos = hist.pos0 + 1

\* what a perceive step does to pos and the ring buffer
C3_Step ==
  nperc' = nperc + 1 =>
    LET byte  == BitsValue(SubSeq(hist'.bits, nperc' - 7, nperc'))
        cells == DOMAIN g.buf \cup DOMAIN g'.buf \cup {g.pos % g.bufn}
    IN  IF nperc' % 8 = 0
        THEN /\ g'.pos = g.pos + 1
             /\ \A i \in cells :
                  BufRead(g'.buf, i) =
                    IF i = g.pos % g.bufn THEN byte ELSE BufRead(g.buf, i)
             /\ g'.b1 = byte
             /\ Lo(g'.c4) % 256 = byte
        ELSE /\ g'.pos = g.pos
             /\ \A i \in cells : BufRead(g'.buf, i) = BufRead(g.buf, i)

\* C3: after n perceive calls bpos == n mod 8 and pos has grown by
\* floor(n/8) (from 0 in the constructed state); pos grows by one on every
\* 8th perceive, which writes exactly one ring-buffer cell, at the old pos
\* mod capacity, with the byte formed MSB-first from the last 8 bits, equal
\* to b1 and to c4 & 0xFF; the other 7 calls leave pos and the buffer alone
C3_Bytes ==
  /\ [](/\ g.bpos = nperc % 8
        /\ g.pos = hist.pos0 + (nperc \div 8)
        /\ g.bufn = BufSize(g.level))
  /\ [][C3_Step]_vars

\* C3 happens: two bytes 0xFF written across the wrap of the ring buffer
C3_Witness ==
  /\ nperc = 16
  /\ hist.pos0 = 512 * 1024 - 1 /\ g.pos = 512 * 1024 + 1
  /\ BufRead(g.buf, 524287) = 255 /\ BufRead(g.buf, 0) = 255
  /\ g.b1 = 255 /\ g.b2 = 255

\* the smoothing knobs as the function of pos that C6 states
KnobsAt(pos) ==
  IF pos < 512 * 1024 THEN <<7, 65662>>
  ELSE IF pos < 1024 * 1024 THEN <<8, 65790>> ELSE <<9, 66046>>

\* C6: (sm_shft, sm_add) is (7,65662) while pos < 512*1024, (8,65790) from
\* the perceive call that makes pos == 512*1024, (9,66046) from the one that
\* makes pos == 1024*1024 and for ever after; they change in no other call;
\* after every perceive sm_add_y is sm_add if the perceived bit is 1, else 0
C6_Knobs ==
  /\ [](/\ <<g.sm_shft, g.sm_add>> = KnobsAt(g.pos)
        /\ nperc > 0 =>
             /\ g.y = hist.bits[nperc]
             /\ g.sm_add_y = IF g.y = 1 THEN g.sm_add ELSE 0)
  /\ [][<<g'.sm_shft, g'.sm_add>> # <<g.sm_shft, g.sm_add>> =>
          /\ g'.pos = g.pos + 1
          /\ g'.pos \in {512 * 1024, 1024 * 1024}]_vars

\* C6 happens: the perceive call that makes pos == 1024*1024, with bit 1
C6_Witness ==
  /\ hist.pos0 = 1024 * 1024 - 1 /\ nperc = 8
  /\ g.pos = 1024 * 1024
  /\ g.sm_shft = 9 /\ g.sm_add = 66046
  /\ g.y = 1 /\ g.sm_add_y = 66046

-----------------------------------------------------------------------------
(* Several PAQ8HP objects: SpecInst.                                        *)
(* PAQ8HP has no data members; its methods work on the file-scope variables *)
(* of lines 211-244 and 1011, on the static APMs and on "Predictor paq8".   *)

Insts == {"A", "B"}

\* the storage an instance's methods read and write: the one set of
\* file-scope variables, whichever the instance
Cell(inst) == "paq8"

Cells == {Cell(i) : i \in Insts}

MaxCalls == 2       \* Perceive calls over all instances
InstLevels == {0, 8}
InstMo == {0, 4095}  \* values contextModel2() returns

\* the storage before any constructor has run
StoreStatic == [c \in Cells |-> [g |-> GlobalStatic, apm |-> APMsNew]]

\* the instances constructed by a sequence of calls
Made(cs) == {cs[k].inst : k \in {j \in DOMAIN cs : cs[j].op = "new"}}
NumPerceives(cs) == Cardinality({j \in DOMAIN cs : cs[j].op = "perceive"})

\* float PAQ8HP::Predict(): (1.0 + p) / 4097 as the fraction it denotes;
\* distinct p in 0..4095 give distinct floats
PAQ8HPPredict(s) == <<1 + PAQ8Predict(s).ret, 4097>>

\* what inst.Predict() returns in the current state
PredictOf(inst) == PAQ8HPPredict(store[Cell(inst)].g)

InitInst ==
  /\ store = StoreStatic
  /\ calls = <<>>
  /\ IdlePred /\ IdleBM /\ IdleHash /\ IdleSM /\ IdleMix /\ IdlePipe /\ IdleCM /\ IdleArena /\ IdleFeed

\* PAQ8HP::PAQ8HP(memory) for the object inst
Construct(inst, memory) ==
  /\ inst \notin Made(calls)
  /\ store' = [store EXCEPT ![Cell(inst)].g = PAQ8Init(@, memory)]
  /\ calls' = Append(calls, [op |-> "new", inst |-> inst, arg |-> memory, mo |-> 0])
  /\ UNCHANGED nonInstVars

\* inst.Perceive(bit); mo is what contextModel2() returns in this call
InstPerceive(inst, bit, mo) ==
  /\ inst \in Made(calls)
  /\ NumPerceives(calls) < MaxCalls
  /\ store' = [store EXCEPT
                 ![Cell(inst)] = PAQ8Perceive(@.g, @.apm, bit, mo)]
  /\ calls' = Append(calls, [op |-> "perceive", inst |-> inst, arg |-> bit, mo |-> mo])
  /\ UNCHANGED nonInstVars

NextInst ==
  \/ \E inst \in Insts, memory \in InstLevels : Construct(inst, memory)
  \/ \E inst \in Insts, bit \in {0, 1}, mo \in InstMo : InstPerceive(inst, bit, mo)

SpecInst == InitInst /\ [][NextInst]_vars

-----------------------------------------------------------------------------
(* Claims about several instances, checked under SpecInst *)

\* one predictor of its own, fed the calls cs in order
RECURSIVE Replay(_)
Replay(cs) ==
  IF cs = <<>> THEN [g |-> GlobalStatic, apm |-> APMsNew]
  ELSE LET r == Replay(SubSeq(cs, 1, Len(cs) - 1))
           c == cs[Len(cs)]
       IN  IF c.op = "new" THEN [r EXCEPT !.g = PAQ8Init(@, c.arg)]
           ELSE PAQ8Perceive(r.g, r.apm, c.arg, c.mo)

\* the calls made through one instance
CallsOf(inst) == SelectSeq(calls, LAMBDA c : c.inst = inst)

\* C5: what A.Predict() returns depends only on the calls made through A;
\* constructing B or calling B.Perceive() changes no value that A.Predict()
\* returns
C5_Independent ==
  \A inst \in Made(calls) :
    PredictOf(inst) = PAQ8HPPredict(Replay(CallsOf(inst)).g)

\* what the code does instead: every instance's Predict() returns the
\* prediction after all Perceive calls made through any instance, in call
\* order; a constructor call leaves that value unchanged
SharedPredictor ==
  /\ [](\A inst \in Made(calls) :
          PredictOf(inst) = PAQ8HPPredict(Replay(calls).g))
  /\ [][\A inst \in Made(calls) :
          Len(calls') = Len(calls) + 1 /\ calls'[Len(calls')].op = "new"
            => PredictOf(inst)' = PredictOf(inst)]_vars

-----------------------------------------------------------------------------
(* The byte mixer (src/src/mixer/byte-mixer.cpp): SpecBM.                   *)
(* The byte values 0..255 are scaled down to 0..NumBytes-1.  Lstm and       *)
(* ByteModel are not part of these sources: the LSTM is the input frame it  *)
(* was handed, the index it last perceived and an output vector chosen by   *)
(* the environment; ByteModel::ByteUpdate() is taken to leave the fields    *)
(* modelled here alone.                                                     *)

NumBytes == 3        \* byte values (256 in the code)
MaxSets == 3         \* SetInput calls between two ByteUpdate calls
MaxUpdates == 2      \* ByteUpdate calls

Bytes == 0..(NumBytes - 1)
Vocabs == (SUBSET Bytes) \ {{}}
InputVals == {1, 2}
NumModels == 2

\* the loop of the constructor, lines 11-14: byte_map_[i] is the number of
\* in-vocabulary bytes below i
RECURSIVE ByteMapLoop(_, _, _, _)
ByteMapLoop(vocab, i, offset, map) ==
  IF i = NumBytes THEN map
  ELSE ByteMapLoop(vocab, i + 1, IF i \in vocab THEN offset + 1 ELSE offset,
                   [map EXCEPT ![i] = offset])

\* ByteMixer::ByteMixer(num_models, ..., bit_context, vocab, vocab_size)
ByteMixerNew(num_models, vocab, vocab_size) ==
  [vocab_ |-> vocab, vocab_size_ |-> vocab_size, num_models_ |-> num_models,
   byte_map_ |-> ByteMapLoop(vocab, 0, 0, [i \in Bytes |-> 0]),
   inputs_ |-> [k \in 0..(vocab_size - 1) |-> 0],
   offset_ |-> 0,
   probs_ |-> [i \in Bytes |-> 0],
   lstm_in |-> [k \in 0..(vocab_size - 1) |-> <<0, 1>>],
   lstm_idx |-> -1]

\* void ByteMixer::SetInput(int index, float val)
SetInput(m, index, val) ==
  IF index \notin m.vocab_ THEN m
  ELSE LET o == m.offset_ + 1
       IN  [m EXCEPT !.inputs_[m.offset_] = @ + val,
                     !.offset_ = IF o = m.vocab_size_ THEN 0 ELSE o]

\* the loop of lines 31-39: probs_ filled from the LSTM output in byte order
RECURSIVE ProbsLoop(_, _, _, _, _)
ProbsLoop(vocab, output, i, offset, probs) ==
  IF i = NumBytes THEN probs
  ELSE IF i \in vocab
       THEN ProbsLoop(vocab, output, i + 1, offset + 1,
                      [probs EXCEPT ![i] = output[offset]])
       ELSE ProbsLoop(vocab, output, i + 1, offset, [probs EXCEPT ![i] = 0])

\* void ByteMixer::ByteUpdate(), with byte the value of byte_ and output the
\* vector lstm_.Perceive returns; 2*inputs_[i]/num_models_ is kept as the
\* fraction <<numerator, denominator>>
ByteUpdate(m, byte, output) ==
  [m EXCEPT
     !.lstm_in = [k \in 0..(m.vocab_size_ - 1) |-> <<2 * m.inputs_[k], m.num_models_>>],
     !.inputs_ = [k \in 0..(m.vocab_size_ - 1) |-> 0],
     !.lstm_idx = m.byte_map_[byte],
     !.probs_ = ProbsLoop(m.vocab_, output, 0, 0, m.probs_),
     !.offset_ = 0]

\* output vectors of the LSTM: one value per vocabulary index, all distinct
LstmOutputs(vocab_size) ==
  {[k \in 0..(vocab_size - 1) |-> base + k] : base \in {10, 20}}

InitBM ==
  /\ IdlePred /\ IdleInst /\ IdleHash /\ IdleSM /\ IdleMix /\ IdlePipe /\ IdleCM /\ IdleArena /\ IdleFeed
  /\ \E vocab \in Vocabs : bm = ByteMixerNew(NumModels, vocab, Cardinality(vocab))
  /\ bmop = [name |-> "new", n |-> 0, sets |-> 0, updates |-> 0,
             b |-> 0, v |-> 0, out |-> <<>>]

DoSetInput(b, v) ==
  /\ bmop.sets < MaxSets
  /\ bm' = SetInput(bm, b, v)
  /\ bmop' = [bmop EXCEPT !.name = "SetInput", !.n = @ + 1, !.sets = @ + 1,
                          !.b = b, !.v = v]
  /\ UNCHANGED nonBMVars

DoByteUpdate(b, out) ==
  /\ bmop.updates < MaxUpdates
  /\ bm' = ByteUpdate(bm, b, out)
  /\ bmop' = [bmop EXCEPT !.name = "ByteUpdate", !.n = @ + 1, !.sets = 0,
                          !.updates = @ + 1, !.b = b, !.out = out]
  /\ UNCHANGED nonBMVars

NextBM ==
  \/ \E b \in Bytes, v \in InputVals : DoSetInput(b, v)
  \/ \E b \in Bytes, out \in LstmOutputs(bm.vocab_size_) : DoByteUpdate(b, out)

SpecBM == InitBM /\ [][NextBM]_vars

-----------------------------------------------------------------------------
(* Claims about the byte mixer, checked under SpecBM *)

\* C7: between two ByteUpdate calls, in any order and number of calls,
\* SetInput(b, v) with b in the vocabulary adds v to the accumulator entry
\* at byte_map_[b] and changes no other entry; with b outside the vocabulary
\* it changes nothing
C7_SetInputBySlot ==
  [][bmop'.name = "SetInput" /\ bmop'.n = bmop.n + 1 =>
       LET b == bmop'.b
           v == bmop'.v
       IN  bm'.inputs_ =
             IF b \in bm.vocab_
             THEN [bm.inputs_ EXCEPT ![bm.byte_map_[b]] = @ + v]
             ELSE bm.inputs_]_vars

\* what the code does instead: the entry that grows is the one at the
\* rolling offset_, whatever the in-vocabulary byte
SetInputByOffset ==
  [][bmop'.name = "SetInput" /\ bmop'.n = bmop.n + 1 =>
       bm'.inputs_ =
         IF bmop'.b \in bm.vocab_
         THEN [bm.inputs_ EXCEPT ![bm.offset_] = @ + bmop'.v]
         ELSE bm.inputs_]_vars

\* byte_map_ restricted to the vocabulary is an order-preserving bijection
\* onto 0..vocab_size-1
ByteMapBijection ==
  /\ \A i \in bm.vocab_ : bm.byte_map_[i] \in 0..(bm.vocab_size_ - 1)
  /\ \A i, j \in bm.vocab_ : i < j => bm.byte_map_[i] < bm.byte_map_[j]
  /\ \A k \in 0..(bm.vocab_size_ - 1) : \E i \in bm.vocab_ : bm.byte_map_[i] = k

\* after ByteUpdate probs_[i] is the LSTM output at byte_map_[i] for
\* in-vocabulary i and 0 for every other i
ProbsFromOutput ==
  bmop.name = "ByteUpdate" =>
    \A i \in Bytes :
      bm.probs_[i] = IF i \in bm.vocab_ THEN bmop.out[bm.byte_map_[i]] ELSE 0

\* C8: at every ByteUpdate, for every vocabulary and every observed byte,
\* the index handed to the LSTM's Perceive lies in [0, vocab_size); byte_map_
\* is an order-preserving bijection on the vocabulary; afterwards probs_[i]
\* is the LSTM output at byte_map_[i] for in-vocabulary i and 0 otherwise
C8_ByteUpdate ==
  /\ bmop.name = "ByteUpdate" => bm.lstm_idx \in 0..(bm.vocab_size_ - 1)
  /\ ByteMapBijection
  /\ ProbsFromOutput

\* the part of C8 the code meets, with the index in range for the observed
\* bytes that are in the vocabulary
ByteUpdateInVocab ==
  /\ bmop.name = "ByteUpdate" /\ bmop.b \in bm.vocab_
       => bm.lstm_idx \in 0..(bm.vocab_size_ - 1)
  /\ ByteMapBijection
  /\ ProbsFromOutput

-----------------------------------------------------------------------------
(* The ContextMap bucket, class ContextMap::E (lines 833-842, 861-872) *)

Slots == 0..6
ZeroRow == [k \in 0..6 |-> 0]

\* an E as Array<E, 64> creates it: calloc leaves every byte 0
EZero == [chk |-> [i \in Slots |-> 0], last |-> 0, bh |-> [i \in Slots |-> ZeroRow]]

\* the test that makes slot i the replacement candidate, line 868
Candidate_nohigh(e, i, pri, b) == (e.last % 16) # i /\ pri < b
Candidate(e, i, pri, b) == (e.last % 16) # i /\ (e.last \div 16) # i /\ pri < b

\* the loop of lines 865-870 from slot i on, and the replacement of line 871
RECURSIVE ELoop(_, _, _, _, _)
ELoop(e, ch, i, b, bi) ==
  IF i = 7
  THEN [e |-> [e EXCEPT !.last = OrN(240, bi, 8), !.chk[bi] = ch, !.bh[bi] = ZeroRow],
        slot |-> bi]
  ELSE IF e.chk[i] = ch
       THEN [e |-> [e EXCEPT !.last = OrN((e.last * 16) % 256, i, 8)], slot |-> i]
       ELSE LET pri == e.bh[i][0]
            IN  IF Candidate(e, i, pri, b) THEN ELoop(e, ch, i + 1, pri, i)
                ELSE ELoop(e, ch, i + 1, b, bi)

\* U8* ContextMap::E::get(U16 ch, int j): the bucket afterwards and the slot
\* whose row is returned
EGet(e, ch, j) ==
  LET c == (ch + j) % W16
  IN  IF e.chk[e.last % 16] = c THEN [e |-> e, slot |-> e.last % 16]
      ELSE ELoop(e, c, 0, 65535, 0)

\* a store through the returned pointer: byte k of the row of slot
EStore(e, slot, k, v) == [e EXCEPT !.bh[slot][k] = v]

-----------------------------------------------------------------------------
(* The RunContextMap table, template class BH with B = 4 (lines 642-674)    *)
(* and class RunContextMap (lines 730-751).  An element is 4 bytes: a       *)
(* 16-bit checksum, the priority byte p[2] (the run count) and p[3] (the    *)
(* byte value).                                                             *)

BHLog == 3                      \* log2 of the number of elements
BHSize == Pow2(BHLog)
BHProbes == 7                   \* enum {M=7}

ZeroElem == [chk |-> 0, pri |-> 0, val |-> 0]

\* Array<U8, 64> t(i*B): BHSize zeroed elements.  A window that starts near
\* the end reads and shifts the M-1 following elements, which are not part
\* of the array; what they hold is not determined by the program.
PastEnd == {ZeroElem, [chk |-> 1, pri |-> 1, val |-> 1]}
BHTable(past) ==
  [k \in 0..(BHSize + BHProbes - 2) |-> IF k < BHSize THEN ZeroElem ELSE past]

\* the probe loop of lines 658-662 from position j on: the table afterwards
\* and the position where it stopped, M if it ran to the end
RECURSIVE BHProbe(_, _, _, _)
BHProbe(t, i, chk, j) ==
  IF j = BHProbes THEN [t |-> t, j |-> j]
  ELSE IF t[i + j].pri = 0 THEN [t |-> [t EXCEPT ![i + j].chk = chk], j |-> j]
  ELSE IF t[i + j].chk = chk THEN [t |-> t, j |-> j]
  ELSE BHProbe(t, i, chk, j + 1)

\* the lookup with the later of two tied candidates kept
BHGet_tie(t, n, h) ==
  LET chk == XorN(Hi(h), Lo(h), 16)
      i   == NatOf(AndU32(MulU32(h, <<0, BHProbes>>), U32Of(n)))
      pr  == BHProbe(t, i, chk, 0)
  IN  IF pr.j = 0 THEN [t |-> pr.t, ret |-> i, i |-> i, j |-> 0]
      ELSE LET jj    == IF pr.j = BHProbes
                        THEN (IF pr.t[i + 6].pri >= pr.t[i + 5].pri THEN 5 ELSE 6)
                        ELSE pr.j
               front == IF pr.j = BHProbes THEN [chk |-> chk, pri |-> 0, val |-> 0]
                        ELSE pr.t[i + pr.j]
           IN  [t |-> [k \in DOMAIN t |->
                         IF k = i THEN front
                         ELSE IF k > i /\ k <= i + jj THEN pr.t[k - 1]
                         ELSE pr.t[k]],
                ret |-> i, i |-> i, j |-> pr.j]

\* U8* BH<4>::operator[](U32 h): the table afterwards, the element whose
\* address is returned, the first element of the window and the position the
\* probe loop stopped at
BHGet(t, n, h) ==
  LET chk == XorN(Hi(h), Lo(h), 16)
      i   == NatOf(AndU32(MulU32(h, <<0, BHProbes>>), U32Of(n)))
      pr  == BHProbe(t, i, chk, 0)
  IN  IF pr.j = 0 THEN [t |-> pr.t, ret |-> i, i |-> i, j |-> 0]
      ELSE LET jj    == IF pr.j = BHProbes
                        THEN (IF pr.t[i + 6].pri > pr.t[i + 5].pri THEN 5 ELSE 6)
                        ELSE pr.j
               front == IF pr.j = BHProbes THEN [chk |-> chk, pri |-> 0, val |-> 0]
                        ELSE pr.t[i + pr.j]
           IN  [t |-> [k \in DOMAIN t |->
                         IF k = i THEN front
                         ELSE IF k > i /\ k <= i + jj THEN pr.t[k - 1]
                         ELSE pr.t[k]],
                ret |-> i, i |-> i, j |-> pr.j]

\* RunContextMap(int m, int c): t(m/4), cp = t[0]+2
RcmNew(past) ==
  LET r == BHGet(BHTable(past), BHSize - 1, U32Zero)
  IN  [t |-> r.t, n |-> BHSize - 1, cp |-> r.ret]

\* the count update of RunContextMap::set, lines 738-739, with byte the
\* global b1
RcmCount(e, byte) ==
  IF e.pri = 0 \/ e.val # byte THEN [e EXCEPT !.pri = 1, !.val = byte]
  ELSE IF e.pri < 255 THEN [e EXCEPT !.pri = e.pri + 1]
  ELSE e

\* void RunContextMap::set(U32 cx): the map afterwards and the lookup made
RcmSet(r, cx, byte) ==
  LET look == BHGet([r.t EXCEPT ![r.cp] = RcmCount(@, byte)], r.n, cx)
  IN  [r |-> [r EXCEPT !.t = look.t, !.cp = look.ret], look |-> look]

-----------------------------------------------------------------------------
(* The two hash containers driven lookup by lookup: SpecHash.               *)
(* A run works on one container: the ContextMap bucket (kind "E") or the    *)
(* RunContextMap (kind "BH").  A bucket run starts from the all-zero bucket *)
(* or from a bucket that earlier lookups have filled: Filled applies EGet   *)
(* and EStore to the zero bucket, so every start is a state the code        *)
(* reaches.                                                                 *)

MaxGets == 2         \* E::get calls of a run
MaxBHOps == 3        \* RunContextMap::set and BH lookups of a run

Pris == {1, 2}       \* nonzero bit-history states stored as priorities

\* the bucket after lookups of the checksums 1..n, each followed by stores
\* of the state ps[k] into byte 0 and of k into byte 1 of the returned row
RECURSIVE Filled(_, _)
Filled(ps, n) ==
  IF n = 0 THEN EZero
  ELSE LET r == EGet(Filled(ps, n - 1), n, 0)
       IN  EStore(EStore(r.e, r.slot, 0, ps[n]), r.slot, 1, n)

\* then lookups of two checksums that are present, so that both nibbles of
\* the LRU queue name slots; <<0, 0>> for none
Touched(e, ab) ==
  IF ab = <<0, 0>> THEN e ELSE EGet(EGet(e, ab[1], 0).e, ab[2], 0).e

Touches == {<<0, 0>>, <<1, 4>>, <<4, 7>>, <<7, 1>>}

EStarts ==
  {EZero} \cup {Touched(Filled(ps, 7), ab) : ps \in [1..7 -> Pris], ab \in Touches}

\* arguments of E::get: checksums present and absent, 0, and a sum ch + j
\* that wraps to 0
GetIn == {<<c, 0>> : c \in {0, 1, 4, 7, 8}} \cup {<<65535, 1>>}

\* hashes handed to the RunContextMap: windows starting at elements 0 and
\* BHSize - 1, several checksums each
LoFor(i) == CHOOSE lo \in 0..(BHSize - 1) : (lo * BHProbes) % BHSize = i
HashIn == {<<hi, lo>> : hi \in 0..2, lo \in {LoFor(0), LoFor(BHSize - 1)}}
RunBytes == {5, 6}

NoLookup == [name |-> "new", key |-> <<>>, ret |-> -1, pre |-> <<>>]

InitHash ==
  /\ IdlePred /\ IdleInst /\ IdleBM /\ IdleSM /\ IdleMix /\ IdlePipe /\ IdleCM /\ IdleArena /\ IdleFeed
  /\ \/ /\ eb \in EStarts
        /\ rcm = RcmNew(ZeroElem)
        /\ hop = [kind |-> "E", name |-> "new", n |-> 0, key |-> <<>>, ret |-> -1,
                  j |-> 0, pre |-> eb, prev |-> NoLookup]
     \/ /\ eb = EZero
        /\ \E past \in PastEnd : rcm = RcmNew(past)
        /\ hop = [kind |-> "BH", name |-> "new", n |-> 0, key |-> <<>>, ret |-> -1,
                  j |-> 0, pre |-> rcm.t, prev |-> NoLookup]

\* the latest call, as the next one remembers it
Latest == [name |-> hop.name, key |-> hop.key, ret |-> hop.ret, pre |-> hop.pre]

\* bucket.get(ch, j)
DoEGet(ch, j) ==
  /\ hop.kind = "E" /\ hop.n < MaxGets
  /\ LET r == EGet(eb, ch, j)
     IN  /\ eb' = r.e
         /\ hop' = [hop EXCEPT !.name = "get", !.n = @ + 1, !.key = <<ch, j>>,
                               !.ret = r.slot, !.pre = eb, !.prev = Latest]
  /\ UNCHANGED rcm
  /\ UNCHANGED nonHashVars

\* the caller stores a state into byte k of the row it was handed
DoEStore(k, v) ==
  /\ hop.kind = "E" /\ hop.name = "get"
  /\ eb' = EStore(eb, hop.ret, k, v)
  /\ hop' = [hop EXCEPT !.name = "store"]
  /\ UNCHANGED rcm
  /\ UNCHANGED nonHashVars

\* a lookup t[h] on the RunContextMap's table
DoBHLookup(h) ==
  /\ hop.kind = "BH" /\ hop.n < MaxBHOps
  /\ LET r == BHGet(rcm.t, rcm.n, h)
     IN  /\ rcm' = [rcm EXCEPT !.t = r.t]
         /\ hop' = [hop EXCEPT !.name = "lookup", !.n = @ + 1, !.key = h,
                               !.ret = r.ret, !.j = r.j, !.pre = rcm.t,
                               !.prev = Latest]
  /\ UNCHANGED eb
  /\ UNCHANGED nonHashVars

\* RunContextMap::set(cx) with the global b1 = byte
DoRcmSet(cx, byte) ==
  /\ hop.kind = "BH" /\ hop.n < MaxBHOps
  /\ LET r == RcmSet(rcm, cx, byte)
     IN  /\ rcm' = r.r
         /\ hop' = [hop EXCEPT !.name = "set", !.n = @ + 1, !.key = cx,
                               !.ret = r.look.ret, !.j = r.look.j,
                               !.pre = [rcm.t EXCEPT ![rcm.cp] = RcmCount(@, byte)],
                               !.prev = Latest]
  /\ UNCHANGED eb
  /\ UNCHANGED nonHashVars

NextHash ==
  \/ \E in \in GetIn : DoEGet(in[1], in[2])
  \/ \E v \in Pris : DoEStore(0, v)
  \/ \E h \in HashIn : DoBHLookup(h)
  \/ \E cx \in HashIn, byte \in RunBytes : DoRcmSet(cx, byte)

SpecHash == InitHash /\ [][NextHash]_vars

-----------------------------------------------------------------------------
(* Claims about the hash containers, checked under SpecHash *)

\* the 16-bit checksum the latest E::get looked for
KeySum == (hop.key[1] + hop.key[2]) % W16

\* the first element of the window of hash h
WindowStart(h) == (Lo(h) * BHProbes) % BHSize

\* the elements of the table proper are all zero
ZeroTable(t) == \A k \in 0..(BHSize - 1) : t[k] = ZeroElem

\* the first lookup on a zeroed RunContextMap table returns the first
\* element of the window, for every hash
BHFirstLookup ==
  hop.kind = "BH" /\ hop.name = "lookup" /\ ZeroTable(hop.pre) =>
    hop.ret = WindowStart(hop.key) /\ hop.j = 0

\* a lookup that repeats, with the same key, the first lookup made on a
\* zeroed container returns the same slot and leaves the contents unchanged
RepeatedLookup ==
  /\ hop.kind = "E" /\ hop.name = "get" /\ hop.prev.name = "get"
       /\ hop.prev.pre = EZero /\ hop.prev.key = hop.key
       => hop.ret = hop.prev.ret /\ eb = hop.pre
  /\ hop.kind = "BH" /\ hop.name = "lookup" /\ hop.prev.name = "lookup"
       /\ ZeroTable(hop.prev.pre) /\ hop.prev.key = hop.key
       => hop.ret = hop.prev.ret /\ rcm.t = hop.pre

\* C9: on an all-zero bucket the first lookup returns slot 0 for every
\* checksum, in ContextMap::E::get and in BH<4>::operator[]; the same lookup
\* repeated at once returns the same slot with its contents unchanged
C9_FirstSlotZero ==
  /\ hop.kind = "E" /\ hop.name = "get" /\ hop.pre = EZero => hop.ret = 0
  /\ BHFirstLookup
  /\ RepeatedLookup

\* what the code does on a zero bucket: BH<4>::operator[] returns the first
\* element of the window for every hash; ContextMap::E::get returns slot 0
\* only when the checksum (ch + j) mod 2^16 is 0 and slot 1 for every other
\* checksum, because the zero queue byte names slot 0 in both nibbles
FirstLookupAsCoded ==
  /\ hop.kind = "E" /\ hop.name = "get" /\ hop.pre = EZero
       => hop.ret = IF KeySum = 0 THEN 0 ELSE 1
  /\ BHFirstLookup
  /\ RepeatedLookup

\* the slots named by the two nibbles of an LRU queue byte
Queue(last) == {last % 16, last \div 16}

\* C10: a lookup whose checksum matches no slot overwrites (new checksum,
\* row of 7 zero bytes) a slot outside the LRU queue as it was before the
\* call, whose priority bh[slot][0] is the least among the slots outside the
\* queue, the lowest such slot on a tie; no other slot's checksum or row
\* changes
C10_Replace ==
  hop.kind = "E" /\ hop.name = "get"
    /\ (\A i \in Slots : hop.pre.chk[i] # KeySum) =>
      LET pre  == hop.pre
          v    == hop.ret
          free == Slots \ Queue(pre.last)
      IN  /\ v \in free
          /\ \A x \in free :
               /\ pre.bh[v][0] <= pre.bh[x][0]
               /\ pre.bh[x][0] = pre.bh[v][0] => v <= x
          /\ eb.chk[v] = KeySum /\ eb.bh[v] = ZeroRow
          /\ \A x \in Slots \ {v} : eb.chk[x] = pre.chk[x] /\ eb.bh[x] = pre.bh[x]

\* C10 happens: a miss on a full bucket whose queue names two slots, where
\* a lower slot outside the queue had the higher priority and the replaced
\* row was not zero
C10_Witness ==
  /\ hop.kind = "E" /\ hop.name = "get"
  /\ \A i \in Slots : hop.pre.chk[i] # KeySum /\ hop.pre.bh[i][0] > 0
  /\ hop.pre.last \div 16 \in Slots
  /\ hop.pre.bh[hop.ret][0] = 1 /\ hop.pre.bh[hop.ret][1] # 0
  /\ \E x \in Slots \ Queue(hop.pre.last) : x < hop.ret /\ hop.pre.bh[x][0] = 2
  /\ eb.bh[hop.ret] = ZeroRow

\* the latest two E::get calls of a run returned two distinct slots
TwoSlotsReturned ==
  hop.kind = "E" /\ hop.name = "get" /\ hop.n >= 2 /\ hop.prev.ret # hop.ret

\* the latest E::get found its checksum in no slot and replaced one
Replaced == \A i \in Slots : hop.pre.chk[i] # KeySum

\* C11: once two distinct slots have been returned, the low nibble of the
\* LRU queue byte is the slot returned by the latest call and the high
\* nibble is the distinct slot returned most recently before it, also
\* directly after a lookup that replaced a slot
C11_QueueNamesLastTwo ==
  TwoSlotsReturned =>
    eb.last % 16 = hop.ret /\ eb.last \div 16 = hop.prev.ret

\* what the code does: the low nibble is always the slot just returned; the
\* high nibble is the slot returned before it after a lookup that found its
\* checksum, and 15 (no slot) after a lookup that replaced a slot
QueueAsCoded ==
  TwoSlotsReturned =>
    /\ eb.last % 16 = hop.ret
    /\ eb.last \div 16 = IF Replaced THEN 15 ELSE hop.prev.ret

\* elements of 4 bytes in a line of 64 bytes
LineElems == 16

\* the last element the probe loop of the latest BH lookup read
LastProbed == WindowStart(hop.key) + Min(hop.j, BHProbes - 1)

\* C12: every element a BH<4> lookup probes has an index <= n, and the
\* elements probed lie in one 64-byte line
C12_WindowInTable ==
  hop.kind = "BH" /\ hop.name \in {"lookup", "set"} =>
    /\ LastProbed <= BHSize - 1
    /\ LastProbed \div LineElems = WindowStart(hop.key) \div LineElems

\* what the code guarantees: the window starts inside the table and the
\* probes stay within the M elements from there on
WindowAsCoded ==
  hop.kind = "BH" /\ hop.name \in {"lookup", "set"} =>
    /\ hop.ret = WindowStart(hop.key) /\ hop.ret <= BHSize - 1
    /\ LastProbed <= hop.ret + BHProbes - 1

-----------------------------------------------------------------------------
(* class StateMap (lines 589-611): a table of 16-bit probabilities indexed  *)
(* by bit-history state, trained towards the last bit with the smoothing    *)
(* knobs sm_shft and sm_add_y.                                              *)

NumStates == 3       \* bit-history states the modelled table covers
SMStates == 0..(NumStates - 1)

\* nex(state, 2) and nex(state, 3) of State_table for the states 0..7: the
\* numbers of 0 and 1 bits the state stands for
StateCounts ==
  <<<<0, 0>>, <<1, 0>>, <<0, 1>>, <<2, 0>>, <<1, 1>>, <<1, 1>>, <<0, 2>>, <<3, 0>>>>

\* StateMap::StateMap(): cxt = 0 and t[i] = 65536*(n1+1)/(n0+n1+2)
StateMapNew ==
  [t |-> [i \in SMStates |->
            LET c  == StateCounts[i + 1]
                n1 == IF c[1] = 0 THEN c[2] * 128 ELSE c[2]
                n0 == IF n1 = 0 THEN c[1] * 128 ELSE c[1]
            IN  ((65536 * (n1 + 1)) \div (n0 + n1 + 2)) % W16],
   cxt |-> 0]

\* the settings of (sm_shft, sm_add): initially, from pos = 512K, from
\* pos = 1M
SMSettings == <<<<7, 65535 + 127>>, <<8, 65535 + 255>>, <<9, 65535 + 511>>>>

\* q + ((sm_add_y - q) >> sm_shft), as an int
SMTrain_round(q, add_y, shft) == q + Sar(add_y - q + Pow2(shft - 1), shft)
SMTrain(q, add_y, shft) == q + Sar(add_y - q, shft)

\* int StateMap::p(int cx): the map afterwards and the value returned; the
\* assignment to t[cxt] stores a U16
StateMapP(s, cx, add_y, shft) ==
  LET t1 == [s.t EXCEPT ![s.cxt] = SMTrain(@, add_y, shft) % W16]
  IN  [sm |-> [t |-> t1, cxt |-> cx], ret |-> t1[cx] \div 16]

-----------------------------------------------------------------------------
(* One StateMap driven call by call: SpecSM.  The first MaxFreeSM calls     *)
(* take any state and bit, and the knobs may move to their next setting in  *)
(* between; after that the last call is repeated unchanged, which drives    *)
(* an entry to its fixed point.                                             *)

MaxFreeSM == 2
MaxSteadySM == 520

InitSM ==
  /\ IdlePred /\ IdleInst /\ IdleBM /\ IdleHash /\ IdleMix /\ IdlePipe /\ IdleCM /\ IdleArena /\ IdleFeed
  /\ sm = [map |-> StateMapNew, stage |-> 1]
  /\ smop = [name |-> "new", n |-> 0, cx |-> 0, y |-> 0, ret |-> -1,
             old |-> StateMapNew, stage |-> 1]

\* sm.p(cx) with the last coded bit y
DoStateMapP(cx, y) ==
  /\ \/ smop.n < MaxFreeSM
     \/ /\ smop.n < MaxFreeSM + MaxSteadySM
        /\ smop.name = "p" /\ cx = smop.cx /\ y = smop.y
  /\ LET k == SMSettings[sm.stage]
         r == StateMapP(sm.map, cx, IF y = 1 THEN k[2] ELSE 0, k[1])
     IN  /\ sm' = [sm EXCEPT !.map = r.sm]
         /\ smop' = [name |-> "p", n |-> smop.n + 1, cx |-> cx, y |-> y,
                     ret |-> r.ret, old |-> sm.map, stage |-> sm.stage]
  /\ UNCHANGED nonSMVars

\* Predictor::update moves the knobs to their next setting
DoKnobs ==
  /\ smop.n < MaxFreeSM /\ sm.stage < Len(SMSettings)
  /\ sm' = [sm EXCEPT !.stage = @ + 1]
  /\ UNCHANGED smop
  /\ UNCHANGED nonSMVars

NextSM ==
  \/ \E cx \in SMStates, y \in 0..1 : DoStateMapP(cx, y)
  \/ DoKnobs

SpecSM == InitSM /\ [][NextSM]_vars

-----------------------------------------------------------------------------
(* Claims about StateMap, checked under SpecSM *)

\* a step that is a StateMap::p call
IsStateMapP == smop'.n = smop.n + 1

\* what a p(cx) call does to the table and returns
C13_Call ==
  IsStateMapP =>
    LET old   == sm.map
        new   == sm'.map
        k     == SMSettings[sm.stage]
        add_y == IF smop'.y = 1 THEN k[2] ELSE 0
        q     == old.t[old.cxt]
        v     == q + Sar(add_y - q, k[1])
    IN  /\ smop.name = "p" => old.cxt = smop.cx
        /\ v \in 0..65535 /\ new.t[old.cxt] = v
        /\ \A c \in SMStates \ {old.cxt} : new.t[c] = old.t[c]
        /\ smop'.ret = new.t[smop'.cx] \div 16 /\ smop'.ret \in 0..4095

\* a call that repeats the state and the bit of the call before moves the
\* entry towards the bit, and leaves it only where it is at the end of its
\* range
C13_Monotone ==
  IsStateMapP /\ smop.name = "p" /\ smop'.cx = smop.cx /\ smop'.y = smop.y =>
    LET cx == smop.cx
        a  == sm.map.t[cx]
        b  == sm'.map.t[cx]
    IN  /\ smop.y = 1 => b >= a /\ (b = a => a = 65535)
        /\ smop.y = 0 => b <= a /\ (b = a => a = 0)

\* C13: each StateMap::p(cx) changes only the entry queried by the call
\* before, by t[prev] += (sm_add_y - t[prev]) >> sm_shft, and returns
\* t[cx] >> 4 in 0..4095; under all three knob settings the entries stay in
\* 0..65535 without 16-bit wrap, and with constant cx and y the entry moves
\* monotonically (up for y = 1, down for y = 0) until it is at a fixed point
C13_StateMap ==
  /\ [](smop.name = "p" => \A c \in SMStates : sm.map.t[c] \in 0..65535)
  /\ [][C13_Call /\ C13_Monotone]_vars

\* C13 happens: under the last knob setting an entry has been driven up to
\* 65535 by repeated calls and the latest call left the table as it was
C13_Witness ==
  /\ smop.name = "p" /\ smop.n > MaxFreeSM /\ smop.stage = 3 /\ smop.y = 1
  /\ sm.map.t[smop.cx] = 65535 /\ sm.map = smop.old

-----------------------------------------------------------------------------
(* train, dot_product (the NOASM versions, lines 426-451) and class Mixer   *)
(* (lines 456-543).  Weights and inputs are shorts; a Mixer made with S > 1 *)
(* owns a second Mixer mp(S, 1, 1, 0x7fff) that combines its S outputs.     *)

Short(x) == ((x + 32768) % W16) - 32768
RoundUp8(n) == ((n + 7) \div 8) * 8

\* int dot_product(short *t, short *w, int n), w starting at wx[off]
RECURSIVE DotFrom(_, _, _, _, _)
DotFrom(t, w, off, i, n) ==
  IF i >= n THEN 0
  ELSE Sar(t[i] * w[off + i] + t[i + 1] * w[off + i + 1], 8)
         + DotFrom(t, w, off, i + 2, n)
dot_product(t, w, off, n) == DotFrom(t, w, off, 0, RoundUp8(n))

\* the weight change of one input: (((t*err*2) >> 16) + 1) >> 1
TrainDelta_noround(t, err) == Sar(t * err * 2, 17)
TrainDelta(t, err) == Sar(Sar(t * err * 2, 16) + 1, 1)

\* void train(short *t, short *w, int n, int err), w starting at wx[off]
train(t, w, off, n, err) ==
  [k \in DOMAIN w |->
     IF k >= off /\ k < off + RoundUp8(n)
     THEN Max(-32768, Min(32767, w[k] + TrainDelta(t[k - off], err)))
     ELSE w[k]]

\* the padding loop of Mixer::p: while (nx&7) tx[nx++]=0
Pad(tx, nx) == [i \in DOMAIN tx |-> IF i >= nx /\ i < RoundUp8(nx) THEN 0 ELSE tx[i]]

\* Mixer::Mixer(n, m, s, w) with s > 1, and its mp
MixerNew(n, m, s, w) ==
  LET N == RoundUp8(n)
      NS == RoundUp8(s)
  IN  [N |-> N, M |-> m, S |-> s,
       wx |-> [k \in 0..(N * m - 1) |-> w],
       cxt |-> [i \in 0..(s - 1) |-> 0], ncxt |-> 0, base |-> 0,
       pr |-> [i \in 0..(s - 1) |-> 2048],
       tx |-> [i \in 0..(N - 1) |-> 0], nx |-> 0,
       mp |-> [N |-> NS, wx |-> [k \in 0..(NS - 1) |-> 32767],
               tx |-> [i \in 0..(NS - 1) |-> 0], nx |-> 0, base |-> 0]]

\* void Mixer::update(): the loop from context i on, then nx=base=ncxt=0
RECURSIVE MixerUpdateFrom(_, _, _)
MixerUpdateFrom(m, y, i) ==
  IF i >= m.ncxt THEN [m EXCEPT !.nx = 0, !.base = 0, !.ncxt = 0]
  ELSE LET err == (y * 4096 - m.pr[i]) * 7
       IN  MixerUpdateFrom([m EXCEPT !.wx = train(m.tx, m.wx, m.cxt[i] * m.N, m.nx, err)],
                           y, i + 1)
MixerUpdate(m, y) == MixerUpdateFrom(m, y, 0)

\* void Mixer::add(int x)
MixerAdd(m, x) == [m EXCEPT !.tx[m.nx] = Short(x), !.nx = @ + 1]

\* void Mixer::set(int cx, int range)
MixerSet(m, cx, range) ==
  [m EXCEPT !.cxt[m.ncxt] = m.base + cx, !.ncxt = @ + 1, !.base = @ + range]

\* void Mixer::update2(), called on mp
MixerUpdate2(q, y) ==
  [q EXCEPT !.wx = train(q.tx, q.wx, 0, q.nx, CDiv((y * 4096 - q.base) * 3, 2)),
            !.nx = 0]

\* the loop of Mixer::p over the selected contexts from i on: pr[i] and the
\* inputs added to mp
RECURSIVE MixerOutputsFrom(_, _)
MixerOutputsFrom(m, i) ==
  IF i >= m.ncxt THEN m
  ELSE LET dp == Sar(dot_product(m.tx, m.wx, m.cxt[i] * m.N, m.nx) * 9, 9)
       IN  MixerOutputsFrom([m EXCEPT !.pr[i] = squash(dp),
                                      !.mp = MixerAdd(m.mp, dp)], i + 1)

\* int Mixer::p() of a Mixer with mp: the Mixer afterwards and the value
\* returned by mp->p()
MixerP(m, y) ==
  LET m1 == [m EXCEPT !.tx = Pad(m.tx, m.nx), !.nx = RoundUp8(m.nx),
                      !.mp = MixerUpdate2(m.mp, y)]
      m2 == MixerOutputsFrom(m1, 0)
      q  == [m2.mp EXCEPT !.tx = Pad(m2.mp.tx, m2.mp.nx), !.nx = RoundUp8(m2.mp.nx)]
      z  == dot_product(q.tx, q.wx, 0, q.nx)
  IN  [m |-> [m2 EXCEPT !.mp = [q EXCEPT !.base = squash(Sar(z * 15, 13))]],
       ret |-> squash(Sar(z, 9))]

-----------------------------------------------------------------------------
(* A Mixer driven in the cycle update(); add(x) for each input; set(cx,     *)
(* range) for each context set; p(), with the same inputs, contexts and bit *)
(* y on every cycle: SpecMix.  The driver is the caller of the Mixer, as    *)
(* contextModel2 is.  A cycle is a function of the Mixer alone, so a run    *)
(* has settled once p() leaves the Mixer as the p() before left it.         *)

MixNx == 2                       \* inputs added per cycle
MixX == {1, 2047}                \* input values
MixW == {-4096, 0}               \* initial weight w of the constructor
MixRanges == <<1, 1>>            \* ranges of the S context sets

InitMix ==
  /\ IdlePred /\ IdleInst /\ IdleBM /\ IdleHash /\ IdleSM /\ IdlePipe /\ IdleCM /\ IdleArena /\ IdleFeed
  /\ \E w \in MixW, x \in [1..MixNx -> MixX], y \in 0..1 :
       mx = [m |-> MixerNew(MixNx, Len(MixRanges), Len(MixRanges), w),
             x |-> x, y |-> y, w |-> w]
  /\ mxop = [pc |-> "update", ret |-> -1, after |-> <<>>, settled |-> FALSE]

DoMixUpdate ==
  /\ mxop.pc = "update" /\ ~mxop.settled
  /\ mx' = [mx EXCEPT !.m = MixerUpdate(@, mx.y)]
  /\ mxop' = [mxop EXCEPT !.pc = "add"]
  /\ UNCHANGED nonMixVars

DoMixAdd ==
  /\ mxop.pc = "add"
  /\ mx' = [mx EXCEPT !.m = MixerAdd(@, mx.x[mx.m.nx + 1])]
  /\ mxop' = [mxop EXCEPT !.pc = IF mx'.m.nx = MixNx THEN "set" ELSE "add"]
  /\ UNCHANGED nonMixVars

DoMixSet ==
  /\ mxop.pc = "set"
  /\ mx' = [mx EXCEPT !.m = MixerSet(@, 0, MixRanges[mx.m.ncxt + 1])]
  /\ mxop' = [mxop EXCEPT !.pc = IF mx'.m.ncxt = mx.m.S THEN "p" ELSE "set"]
  /\ UNCHANGED nonMixVars

DoMixP ==
  /\ mxop.pc = "p"
  /\ LET r == MixerP(mx.m, mx.y)
     IN  /\ mx' = [mx EXCEPT !.m = r.m]
         /\ mxop' = [pc |-> "update", ret |-> r.ret, after |-> r.m,
                     settled |-> (r.m = mxop.after /\ r.ret = mxop.ret)]
  /\ UNCHANGED nonMixVars

NextMix == DoMixUpdate \/ DoMixAdd \/ DoMixSet \/ DoMixP

SpecMix == InitMix /\ [][NextMix]_vars

-----------------------------------------------------------------------------
(* Claims about the Mixer, checked under SpecMix *)

\* C14: driven with the same nonzero inputs and contexts on every cycle,
\* from any starting weights, p() never settles at or below 2048 when y is
\* 1 on every cycle and never settles at or above 2048 when y is 0 on every
\* cycle, for inputs of every magnitude
C14_Converges ==
  mxop.settled => /\ mx.y = 1 => mxop.ret > 2048
                  /\ mx.y = 0 => mxop.ret < 2048

\* what the code does: an input changes its weight only if
\* |input * err * 2| reaches 2^16, so p() moves towards y when some input
\* is large, and stays where the starting weights put it when every input
\* is as small as 1
\* p() of a Mixer whose MixNx inputs are 1 and whose weights are still w
UntrainedOutput(w) ==
  LET dp == Sar(Sar(w * MixNx, 8) * 9, 9)
  IN  squash(Sar(Sar(dp * 32767 * Len(MixRanges), 8), 9))
LargeInput == \E i \in 1..MixNx : mx.x[i] >= 256
ConvergesForLargeInputs ==
  /\ mxop.settled /\ LargeInput => /\ mx.y = 1 => mxop.ret > 2048
                                   /\ mx.y = 0 => mxop.ret < 2048
  /\ ~LargeInput /\ mxop.ret # -1 => mxop.ret = UntrainedOutput(mx.w)

-----------------------------------------------------------------------------
(* Claims about the word and text registers, checked under SpecCtx *)

\* a perceive step that completes a byte, and the byte
IsByteStep == nperc' = nperc + 1 /\ nperc' % 8 = 0
StepByte == BitsValue(SubSeq(hist'.bits, nperc' - 7, nperc'))

\* C17: on a byte boundary w5 is shifted the same 2-bit code as w4: both
\* WRT_mpw[byte >> 4], or both 2 when the byte before the emitted byte is
\* 12; seen in the low two bits of both registers when no punctuation
\* sentinel overwrites them
C17_SameCode ==
  [][IsByteStep /\ StepByte \notin Punct =>
       /\ Lo(g'.w4) % 4 = Lo(g'.w5) % 4
       /\ Lo(g'.w5) % 4 = IF g.b1 = 12 THEN 2 ELSE WRT_mpw[(StepByte \div 16) + 1]]_vars

\* what the code does: w4 always takes WRT_mpw[byte >> 4]; only the code
\* for w5 is replaced by 2 after a byte 12
CodesAsCoded ==
  [][IsByteStep /\ StepByte \notin Punct =>
       /\ Lo(g'.w4) % 4 = WRT_mpw[(StepByte \div 16) + 1]
       /\ Lo(g'.w5) % 4 = IF g.b1 = 12 THEN 2 ELSE WRT_mpw[(StepByte \div 16) + 1]]_vars

\* tt and f4 after the punctuation adjustment of a byte-boundary step
TTAdjusted ==
  IF StepByte \in Punct /\ StepByte # 33
  THEN <<Hi(g.tt), (Lo(g.tt) - (Lo(g.tt) % 8)) + 1>> ELSE g.tt
F4Adjusted ==
  IF StepByte \in Punct
  THEN <<Hi(g.f4), (Lo(g.f4) - (Lo(g.f4) % 16)) + 2>> ELSE g.f4

\* C18: on a byte boundary, for every byte value, tt becomes
\* tt' * 8 + WRT_mtt[byte >> 4] mod 2^32 with the emitted byte itself, and
\* f4 becomes f4' * 16 + (folded byte >> 4) mod 2^32, where only f4 uses the
\* byte with 32 folded to 31
C18_TTByEmittedByte ==
  [][IsByteStep =>
       /\ g'.tt = ShlAdd(TTAdjusted, 3, WRT_mtt[(StepByte \div 16) + 1])
       /\ g'.f4 = ShlAdd(F4Adjusted, 4, Fold(StepByte) \div 16)]_vars

\* what the code does: the fold c0 = 31 for a space is made before both
\* updates, so tt takes WRT_mtt of the folded byte as well
TTAsCoded ==
  [][IsByteStep =>
       /\ g'.tt = ShlAdd(TTAdjusted, 3, WRT_mtt[(Fold(StepByte) \div 16) + 1])
       /\ g'.f4 = ShlAdd(F4Adjusted, 4, Fold(StepByte) \div 16)]_vars

-----------------------------------------------------------------------------
(* contextModel2: the calls one PAQ8Perceive makes on the ContextMaps that   *)
(* mix through mix2 and on the final Mixer's context selection.  The bit     *)
(* histories are left out: what a ContextMap::mix returns is an input.       *)

MixerS == 6                                   \* S of "static Mixer m"
MixerM == 128 * (16 + 14 + 14 + 12 + 14 + 16) \* M of "static Mixer m"
CMContexts == 7                               \* C of contextModel2's cm

\* the levels PAQ8Init is called with, on both sides of "level>=4"
PipeLevels == {3, 4}
\* zero bytes already perceived when a run starts after zeros
PipeZeros == 16
\* bytes perceived before the free bits
PipeTexts == {<<>>, <<255, 255>>, <<97, 32>>, <<12, 200>>, <<46, 10>>}
MaxBitsPipe == 7     \* perceive calls with freely chosen bits

\* one ContextMap::mix call: mix1 hands every context's state to mix2, which
\* adds 5 inputs when cxtfl is nonzero and 4 otherwise
MixCall(model, map, fl) ==
  [model |-> model, map |-> map, cxtfl |-> fl,
   features |-> IF fl # 0 THEN 5 ELSE 4]

\* "order=cm.mix(m)-1; if(order<0) order=0;"
Order_noclamp(result) == result - 1
Order(result) == IF result - 1 < 0 THEN 0 ELSE result - 1

\* void wordModel(Mixer& m): the word bit shifted into words, and cm.mix
wordModel(st) ==
  LET c      == st.g.b1
      isword == (c >= 97 /\ c <= 122) \/ c = 8 \/ c = 6 \/ (c > 127 /\ st.g.b2 # 12)
  IN  [st EXCEPT
        !.words = IF st.g.bpos = 0 THEN ShlAdd(@, 1, IF isword THEN 1 ELSE 0) ELSE @,
        !.mixes = Append(@, MixCall("wordModel", "cm", st.cxtfl))]

\* void sparseModel(Mixer& m): cn.mix
sparseModel(st) ==
  [st EXCEPT !.mixes = Append(@, MixCall("sparseModel", "cn", st.cxtfl))]

\* void recordModel(Mixer& m): its five mixes and the gate around three of them
recordModel(st) ==
  [st EXCEPT
     !.mixes = @ \o <<MixCall("recordModel", "co", st.cxtfl),
                      MixCall("recordModel", "cp", st.cxtfl),
                      MixCall("recordModel", "cm", 0),
                      MixCall("recordModel", "cn", 0),
                      MixCall("recordModel", "cq", 0)>>,
     !.cxtfl = 3]

\* the six m.set(cx, range) calls of contextModel2, in order
SetCalls(s, order, words) ==
  LET ws(b)  == IF b = 9 \/ b = 10 \/ b = 32 THEN 16 ELSE b
      c1     == ws(s.b1)
      c2     == ws(s.b2)
      w4lo   == Lo(s.w4) % 256
      c0s    == s.c0 * Pow2(8 - s.bpos)
      cw     == (Lo(words) \div 2) % 64
      c3     == w4lo + 256 * s.bpos
      c4a    == c0s + (IF s.bpos = 1 THEN s.b3 \div 2 ELSE 0)
      c4     == IF s.bpos # 0
                THEN Min(s.bpos, 5) * 256 + (Lo(s.tt) % 64) + AndN(c4a, 192, 10)
                ELSE AndN(Lo(words), 12, 4) * 16 + (Lo(s.tt) % 64)
      c2b    == OrN(c0s, c1 \div Pow2(s.bpos), 10)
      c6     == s.bpos * 256 + (c0s % 256)
      c1b    == (Lo(words) * Pow2(s.bpos)) % 256
  IN  <<<<256 * order + AndN(w4lo, 240, 8) + (c2 \div 16), 256 * 7>>,
        <<(w4lo % 4) * 64 + cw + order * 256, 256 * 7>>,
        <<c3, 256 * 8>>,
        <<c4, 1536>>,
        <<order * 256 + s.bpos + AndN(c2b, 248, 10), 256 * 7>>,
        <<c6 + (c1b \div Pow2(s.bpos)), 2048>>>>

\* the value of a one-element set: in The({e : x \in {v}}) the value v is
\* computed once, however often e uses x
The(S) == CHOOSE x \in S : TRUE

\* Mixer::set applied to the calls from k on, each logged with the base it found
RECURSIVE SetAll(_, _, _)
SetAll(st, cs, k) ==
  IF k > Len(cs) THEN st
  ELSE The({SetAll(n, cs, k + 1) :
              n \in {[st EXCEPT
                        !.sets = Append(@, [cx |-> cs[k][1], range |-> cs[k][2],
                                            base |-> st.m.base]),
                        !.m = MixerSet(@, cs[k][1], cs[k][2])]}})

\* "if (level>=4) { wordModel(m); sparseModel(m); recordModel(m); }"
Models(st) ==
  IF st.g.level >= 4 THEN recordModel(sparseModel(wordModel(st))) ELSE st

\* int contextModel2(), with result what its cm.mix(m) returns
contextModel2(st, result) ==
  The({The({SetAll(s2, cs, 1) : cs \in {SetCalls(s2.g, s2.order, s2.words)}}) :
         s2 \in {The({Models(s1) :
                        s1 \in {[st EXCEPT
                                   !.m = [@ EXCEPT !.ncxt = 0, !.base = 0],
                                   !.mixes = <<MixCall("contextModel2", "cm", st.cxtfl)>>,
                                   !.sets = <<>>,
                                   !.order = Order(result)]}})}})

\* PAQ8Perceive(bit): the context update, then contextModel2
PipePerceive(st, bit, result) ==
  The({contextModel2(s, result) :
         s \in {[st EXCEPT
                   !.g = [UpdateFails(UpdateContext(SetBit(@, bit))) EXCEPT !.pr = 2048]]}})

\* the statics before any bit, after PAQ8Init(level)
PipeNew(level) ==
  [g |-> GlobalInit(level), words |-> U32Zero, order |-> 0, cxtfl |-> 3,
   m |-> [cxt |-> [i \in 0..(MixerS - 1) |-> 0], ncxt |-> 0, base |-> 0],
   mixes |-> <<>>, sets |-> <<>>]

\* the 8 bits of a byte, highest first
ByteBits(b) == [k \in 1..8 |-> (b \div Pow2(8 - k)) % 2]

RECURSIVE PipeAfterBits(_, _)
PipeAfterBits(st, b) ==
  IF b = <<>> THEN st
  ELSE The({PipeAfterBits(n, Tail(b)) : n \in {PipePerceive(st, Head(b), CMContexts)}})

RECURSIVE PipeAfterText(_, _)
PipeAfterText(st, t) ==
  IF t = <<>> THEN st
  ELSE The({PipeAfterText(n, Tail(t)) : n \in {PipeAfterBits(st, ByteBits(Head(t)))}})

PipeStarts ==
  {PipeAfterText(st, t) :
     st \in {PipeNew(l) : l \in PipeLevels}
            \cup {[PipeNew(l) EXCEPT !.g = AfterZeros(l, PipeZeros)] : l \in PipeLevels},
     t \in PipeTexts}

InitPipe ==
  /\ IdlePred /\ IdleInst /\ IdleBM /\ IdleHash /\ IdleSM /\ IdleMix /\ IdleCM /\ IdleArena /\ IdleFeed
  /\ pipe \in PipeStarts
  /\ pipeop = [name |-> "init", n |-> 0, result |-> 0]

DoPerceive(bit, result) ==
  /\ pipeop.n < MaxBitsPipe
  /\ pipe' = PipePerceive(pipe, bit, result)
  /\ pipeop' = [name |-> "perceive", n |-> pipeop.n + 1, result |-> result]
  /\ UNCHANGED nonPipeVars

NextPipe == \E bit \in {0, 1}, result \in 0..CMContexts : DoPerceive(bit, result)

SpecPipe == InitPipe /\ [][NextPipe]_vars

-----------------------------------------------------------------------------
(* Claims about contextModel2, checked under SpecPipe *)

RECURSIVE SumRanges(_)
SumRanges(sets) ==
  IF sets = <<>> THEN 0 ELSE Head(sets).range + SumRanges(Tail(sets))

\* C20: on every bit contextModel2 makes exactly 6 = S Mixer::set calls
\* between update() and p(), each with 0 <= cx < range, with order in 0..6;
\* the six ranges sum to M = 11008, so base + cx < M at every call and the
\* six selected weight columns are pairwise distinct.
C20_SixSets ==
  pipeop.name = "perceive" =>
    /\ Len(pipe.sets) = 6 /\ MixerS = 6 /\ pipe.m.ncxt = 6
    /\ pipe.order \in 0..6
    /\ \A k \in 1..Len(pipe.sets) :
         /\ 0 <= pipe.sets[k].cx /\ pipe.sets[k].cx < pipe.sets[k].range
         /\ pipe.sets[k].base + pipe.sets[k].cx < MixerM
         /\ pipe.m.cxt[k - 1] = pipe.sets[k].base + pipe.sets[k].cx
    /\ SumRanges(pipe.sets) = MixerM /\ MixerM = 11008
    /\ \A i, j \in 0..(MixerS - 1) : i # j => pipe.m.cxt[i] # pipe.m.cxt[j]

\* the first and the last set call select the last column of their range,
\* and a later perceive with the lowest order selects column 0
C20_Witness ==
  /\ pipeop.name = "perceive"
  /\ pipe.sets[1].cx = pipe.sets[1].range - 1
  /\ pipe.sets[6].cx = pipe.sets[6].range - 1
  /\ pipe.order = 6 /\ pipe.g.bpos = 7

\* the five ContextMaps of recordModel as declared, smallest first
RecordMaps == <<"cm", "cn", "co", "cp", "cq">>
MiddleThree == {RecordMaps[2], RecordMaps[3], RecordMaps[4]}

\* C19: in every call of recordModel cxtfl is 0 while exactly the middle
\* three of its five ContextMaps are mixed and 3 while the other two are
\* mixed; cxtfl is 3 at every mix2 call outside recordModel and whenever
\* perceive returns.
C19_MiddleThree ==
  pipeop.name = "perceive" =>
    /\ \A k \in 1..Len(pipe.mixes) :
         IF pipe.mixes[k].model = "recordModel"
         THEN pipe.mixes[k].cxtfl = (IF pipe.mixes[k].map \in MiddleThree THEN 0 ELSE 3)
         ELSE pipe.mixes[k].cxtfl = 3
    /\ pipe.cxtfl = 3

\* what the code does: the gate is 0 for cm, cn and cq, the last three mixed,
\* and 3 for co and cp; it is 3 at every other mix and when perceive returns
GateAsCoded ==
  pipeop.name = "perceive" =>
    /\ \A k \in 1..Len(pipe.mixes) :
         IF pipe.mixes[k].model = "recordModel"
         THEN /\ pipe.mixes[k].cxtfl = (IF pipe.mixes[k].map \in {"cm", "cn", "cq"} THEN 0 ELSE 3)
              /\ pipe.mixes[k].features = (IF pipe.mixes[k].map \in {"cm", "cn", "cq"} THEN 4 ELSE 5)
         ELSE pipe.mixes[k].cxtfl = 3 /\ pipe.mixes[k].features = 5
    /\ pipe.cxtfl = 3
    /\ pipe.g.level >= 4 =>
         {pipe.mixes[k].map : k \in {j \in 1..Len(pipe.mixes) : pipe.mixes[j].model = "recordModel"}}
           = {"cm", "cn", "co", "cp", "cq"}

-----------------------------------------------------------------------------
(* class ContextMap (lines 831-966): set and mix1 on one map, bit by bit.    *)
(* A pointer into the table is the bucket, the slot of the bucket and the    *)
(* byte of the slot's row.  The Mixer and the StateMaps that mix1 feeds are  *)
(* left out: what mix1 hands them is logged.  rnd() is shared by all maps,   *)
(* so what it returns to this map is an input.                               *)

\* static const U8 State_table[256][4]; rows 253-255 are left zero
State_table ==
  <<
  <<1, 2, 0, 0>>, <<3, 5, 1, 0>>, <<4, 6, 0, 1>>, <<7, 10, 2, 0>>,
  <<8, 12, 1, 1>>, <<9, 13, 1, 1>>, <<11, 14, 0, 2>>, <<15, 19, 3, 0>>,
  <<16, 23, 2, 1>>, <<17, 24, 2, 1>>, <<18, 25, 2, 1>>, <<20, 27, 1, 2>>,
  <<21, 28, 1, 2>>, <<22, 29, 1, 2>>, <<26, 30, 0, 3>>, <<31, 33, 4, 0>>,
  <<32, 35, 3, 1>>, <<32, 35, 3, 1>>, <<32, 35, 3, 1>>, <<32, 35, 3, 1>>,
  <<34, 37, 2, 2>>, <<34, 37, 2, 2>>, <<34, 37, 2, 2>>, <<34, 37, 2, 2>>,
  <<34, 37, 2, 2>>, <<34, 37, 2, 2>>, <<36, 39, 1, 3>>, <<36, 39, 1, 3>>,
  <<36, 39, 1, 3>>, <<36, 39, 1, 3>>, <<38, 40, 0, 4>>, <<41, 43, 5, 0>>,
  <<42, 45, 4, 1>>, <<42, 45, 4, 1>>, <<44, 47, 3, 2>>, <<44, 47, 3, 2>>,
  <<46, 49, 2, 3>>, <<46, 49, 2, 3>>, <<48, 51, 1, 4>>, <<48, 51, 1, 4>>,
  <<50, 52, 0, 5>>, <<53, 43, 6, 0>>, <<54, 57, 5, 1>>, <<54, 57, 5, 1>>,
  <<56, 59, 4, 2>>, <<56, 59, 4, 2>>, <<58, 61, 3, 3>>, <<58, 61, 3, 3>>,
  <<60, 63, 2, 4>>, <<60, 63, 2, 4>>, <<62, 65, 1, 5>>, <<62, 65, 1, 5>>,
  <<50, 66, 0, 6>>, <<67, 55, 7, 0>>, <<68, 57, 6, 1>>, <<68, 57, 6, 1>>,
  <<70, 73, 5, 2>>, <<70, 73, 5, 2>>, <<72, 75, 4, 3>>, <<72, 75, 4, 3>>,
  <<74, 77, 3, 4>>, <<74, 77, 3, 4>>, <<76, 79, 2, 5>>, <<76, 79, 2, 5>>,
  <<62, 81, 1, 6>>, <<62, 81, 1, 6>>, <<64, 82, 0, 7>>, <<83, 69, 8, 0>>,
  <<84, 71, 7, 1>>, <<84, 71, 7, 1>>, <<86, 73, 6, 2>>, <<86, 73, 6, 2>>,
  <<44, 59, 5, 3>>, <<44, 59, 5, 3>>, <<58, 61, 4, 4>>, <<58, 61, 4, 4>>,
  <<60, 49, 3, 5>>, <<60, 49, 3, 5>>, <<76, 89, 2, 6>>, <<76, 89, 2, 6>>,
  <<78, 91, 1, 7>>, <<78, 91, 1, 7>>, <<80, 92, 0, 8>>, <<93, 69, 9, 0>>,
  <<94, 87, 8, 1>>, <<94, 87, 8, 1>>, <<96, 45, 7, 2>>, <<96, 45, 7, 2>>,
  <<48, 99, 2, 7>>, <<48, 99, 2, 7>>, <<88, 101, 1, 8>>, <<88, 101, 1, 8>>,
  <<80, 102, 0, 9>>, <<103, 69, 10, 0>>, <<104, 87, 9, 1>>, <<104, 87, 9, 1>>,
  <<106, 57, 8, 2>>, <<106, 57, 8, 2>>, <<62, 109, 2, 8>>, <<62, 109, 2, 8>>,
  <<88, 111, 1, 9>>, <<88, 111, 1, 9>>, <<80, 112, 0, 10>>, <<113, 85, 11, 0>>,
  <<114, 87, 10, 1>>, <<114, 87, 10, 1>>, <<116, 57, 9, 2>>, <<116, 57, 9, 2>>,
  <<62, 119, 2, 9>>, <<62, 119, 2, 9>>, <<88, 121, 1, 10>>, <<88, 121, 1, 10>>,
  <<90, 122, 0, 11>>, <<123, 85, 12, 0>>, <<124, 97, 11, 1>>, <<124, 97, 11, 1>>,
  <<126, 57, 10, 2>>, <<126, 57, 10, 2>>, <<62, 129, 2, 10>>, <<62, 129, 2, 10>>,
  <<98, 131, 1, 11>>, <<98, 131, 1, 11>>, <<90, 132, 0, 12>>, <<133, 85, 13, 0>>,
  <<134, 97, 12, 1>>, <<134, 97, 12, 1>>, <<136, 57, 11, 2>>, <<136, 57, 11, 2>>,
  <<62, 139, 2, 11>>, <<62, 139, 2, 11>>, <<98, 141, 1, 12>>, <<98, 141, 1, 12>>,
  <<90, 142, 0, 13>>, <<143, 95, 14, 0>>, <<144, 97, 13, 1>>, <<144, 97, 13, 1>>,
  <<68, 57, 12, 2>>, <<68, 57, 12, 2>>, <<62, 81, 2, 12>>, <<62, 81, 2, 12>>,
  <<98, 147, 1, 13>>, <<98, 147, 1, 13>>, <<100, 148, 0, 14>>, <<149, 95, 15, 0>>,
  <<150, 107, 14, 1>>, <<150, 107, 14, 1>>, <<108, 151, 1, 14>>, <<108, 151, 1, 14>>,
  <<100, 152, 0, 15>>, <<153, 95, 16, 0>>, <<154, 107, 15, 1>>, <<108, 155, 1, 15>>,
  <<100, 156, 0, 16>>, <<157, 95, 17, 0>>, <<158, 107, 16, 1>>, <<108, 159, 1, 16>>,
  <<100, 160, 0, 17>>, <<161, 105, 18, 0>>, <<162, 107, 17, 1>>, <<108, 163, 1, 17>>,
  <<110, 164, 0, 18>>, <<165, 105, 19, 0>>, <<166, 117, 18, 1>>, <<118, 167, 1, 18>>,
  <<110, 168, 0, 19>>, <<169, 105, 20, 0>>, <<170, 117, 19, 1>>, <<118, 171, 1, 19>>,
  <<110, 172, 0, 20>>, <<173, 105, 21, 0>>, <<174, 117, 20, 1>>, <<118, 175, 1, 20>>,
  <<110, 176, 0, 21>>, <<177, 105, 22, 0>>, <<178, 117, 21, 1>>, <<118, 179, 1, 21>>,
  <<110, 180, 0, 22>>, <<181, 115, 23, 0>>, <<182, 117, 22, 1>>, <<118, 183, 1, 22>>,
  <<120, 184, 0, 23>>, <<185, 115, 24, 0>>, <<186, 127, 23, 1>>, <<128, 187, 1, 23>>,
  <<120, 188, 0, 24>>, <<189, 115, 25, 0>>, <<190, 127, 24, 1>>, <<128, 191, 1, 24>>,
  <<120, 192, 0, 25>>, <<193, 115, 26, 0>>, <<194, 127, 25, 1>>, <<128, 195, 1, 25>>,
  <<120, 196, 0, 26>>, <<197, 115, 27, 0>>, <<198, 127, 26, 1>>, <<128, 199, 1, 26>>,
  <<120, 200, 0, 27>>, <<201, 115, 28, 0>>, <<202, 127, 27, 1>>, <<128, 203, 1, 27>>,
  <<120, 204, 0, 28>>, <<205, 115, 29, 0>>, <<206, 127, 28, 1>>, <<128, 207, 1, 28>>,
  <<120, 208, 0, 29>>, <<209, 125, 30, 0>>, <<210, 127, 29, 1>>, <<128, 211, 1, 29>>,
  <<130, 212, 0, 30>>, <<213, 125, 31, 0>>, <<214, 137, 30, 1>>, <<138, 215, 1, 30>>,
  <<130, 216, 0, 31>>, <<217, 125, 32, 0>>, <<218, 137, 31, 1>>, <<138, 219, 1, 31>>,
  <<130, 220, 0, 32>>, <<221, 125, 33, 0>>, <<222, 137, 32, 1>>, <<138, 223, 1, 32>>,
  <<130, 224, 0, 33>>, <<225, 125, 34, 0>>, <<226, 137, 33, 1>>, <<138, 227, 1, 33>>,
  <<130, 228, 0, 34>>, <<229, 125, 35, 0>>, <<230, 137, 34, 1>>, <<138, 231, 1, 34>>,
  <<130, 232, 0, 35>>, <<233, 125, 36, 0>>, <<234, 137, 35, 1>>, <<138, 235, 1, 35>>,
  <<130, 236, 0, 36>>, <<237, 125, 37, 0>>, <<238, 137, 36, 1>>, <<138, 239, 1, 36>>,
  <<130, 240, 0, 37>>, <<241, 125, 38, 0>>, <<242, 137, 37, 1>>, <<138, 243, 1, 37>>,
  <<130, 244, 0, 38>>, <<245, 135, 39, 0>>, <<246, 137, 38, 1>>, <<138, 247, 1, 38>>,
  <<140, 248, 0, 39>>, <<249, 135, 40, 0>>, <<250, 69, 39, 1>>, <<80, 251, 1, 39>>,
  <<140, 252, 0, 40>>, <<249, 135, 41, 0>>, <<250, 69, 40, 1>>, <<80, 251, 1, 40>>,
  <<140, 252, 0, 41>>, <<0, 0, 0, 0>>, <<0, 0, 0, 0>>, <<0, 0, 0, 0>>
  >>

nex(state, sel) == State_table[state + 1][sel + 1]

CMem == 32768 \div 4        \* m of recordModel's cm
CMC == 1                    \* C, the number of contexts of the map
CMBytes == {97, 200}        \* bytes perceived
CMKeys == {<<0, 1>>, <<0, 2>>}   \* contexts handed to set()
RndLows == {0, 255}         \* low bytes of what rnd() returns
MaxFreeBytes == 3           \* bytes with freely chosen value and context
MaxSteadyBytes == 130       \* further bytes that repeat the last one

Ptr(b, s, k) == [b |-> b, s |-> s, k |-> k]
Null == Ptr(-1, 0, 0)
Off(p, d) == [p EXCEPT !.k = @ + d]

\* Array<E, 64> t: calloc leaves every bucket zero until it is written
TRead(t, b) == IF b \in DOMAIN t THEN t[b] ELSE EZero
TWrite(t, b, e) == [k \in DOMAIN t \cup {b} |-> IF k = b THEN e ELSE t[k]]
Load(t, p) == TRead(t, p.b).bh[p.s][p.k]
Store(t, p, v) == TWrite(t, p.b, EStore(TRead(t, p.b), p.s, p.k, v))

\* ContextMap::ContextMap(int m, int c)
ContextMapNew(m, c) ==
  [C |-> c, Sz |-> (m \div 64) - 1, t |-> <<>>,
   cp |-> [i \in 0..(c - 1) |-> Ptr(0, 0, 0)],
   cp0 |-> [i \in 0..(c - 1) |-> Ptr(0, 0, 0)],
   cxt |-> [i \in 0..(c - 1) |-> U32Zero],
   runp |-> [i \in 0..(c - 1) |-> Ptr(0, 0, 3)],
   cn |-> 0]

\* void ContextMap::set(U32 cx)
ContextMapSet(cm, cx) ==
  LET i  == cm.cn
      c1 == AddU32(MulU32(cx, U32Of(123456791)), U32Of(i))
      c2 == <<Lo(c1), Hi(c1)>>
  IN  [cm EXCEPT !.cn = i + 1,
                 !.cxt[i] = AddU32(MulU32(c2, U32Of(987654323)), U32Of(i))]

\* the run records: the bytes recorded in each since E::get created its slot
Forget(seen, r) == [x \in DOMAIN seen \ {r} |-> seen[x]]
Recorded(seen, r, fresh, byte) ==
  [x \in DOMAIN seen \cup {r} |->
     IF x = r THEN (IF fresh \/ r \notin DOMAIN seen THEN {byte} ELSE seen[r] \cup {byte})
     ELSE seen[x]]

\* the bucket "(cxt[i]+off)&Sz"
CMBucket(cm, i, off) == AndN(Lo(AddU32(cm.cxt[i], U32Of(off))), cm.Sz, 16)

\* t[(cxt[i]+off)&Sz].get(cxt[i]>>16, i): the map afterwards and the pointer
CMGet(st, i, off) ==
  The({[st |-> [st EXCEPT
                  !.cm.t = TWrite(@, b, r.e),
                  !.seen = IF \E k \in Slots :
                                 TRead(st.cm.t, b).chk[k] = (Hi(st.cm.cxt[i]) + i) % W16
                           THEN @ ELSE Forget(@, <<b, r.slot>>)],
        p |-> Ptr(b, r.slot, 0)] :
         b \in {CMBucket(st.cm, i, off)},
         r \in {EGet(TRead(st.cm.t, CMBucket(st.cm, i, off)), Hi(st.cm.cxt[i]), i)}})

\* "(rnd() << ((452-ns)>>3))" is nonzero, for rnd() with low byte rv
RndHit(rv, ns) == rv % Pow2(32 - ((452 - ns) \div 8)) # 0

\* "Update run count of previous context", lines 936-944, on a U8 count
RunCount_wrap(count, last, c1) ==
  IF count = 0 THEN <<2, c1>>
  ELSE IF last # c1 THEN <<1, c1>>
  ELSE <<(count + 2) % 256, last>>
RunCount(count, last, c1) ==
  IF count = 0 THEN <<2, c1>>
  ELSE IF last # c1 THEN <<1, c1>>
  ELSE IF count < 254 THEN <<(count + 2) % 256, last>>
  ELSE <<count, last>>

\* the three stores of lines 926-928 and 930-932 through p: p[0] = a,
\* p[a] = b, p[k] = c
PendingRow(t, p, a, b, k, c) ==
  The({Store(t2, Off(p, k), c) :
         t2 \in {The({Store(t1, Off(p, a), b) : t1 \in {Store(t, p, a)}})}})

\* "Update pending bit histories for bits 2-7", lines 923-934, with c the
\* byte cpi[4] + 256
PendingOf(st, i, cpi, c) ==
  The({The({[s2 EXCEPT !.cm.t = Store(@, Off(cpi, 6), 0)] :
              s2 \in {The({[g2.st EXCEPT
                              !.cm.t = PendingRow(@, g2.p, 1 + ((c \div 4) % 2),
                                                  1 + ((c \div 2) % 2),
                                                  3 + ((c \div 2) % 4), 1 + (c % 2))] :
                             g2 \in {CMGet(s1, i, c \div 8)}})}}) :
         s1 \in {The({[g1.st EXCEPT
                         !.cm.t = PendingRow(@, g1.p, 1 + ((c \div 32) % 2),
                                             1 + ((c \div 16) % 2),
                                             3 + ((c \div 16) % 4), 1 + ((c \div 8) % 2))] :
                        g1 \in {CMGet(st, i, c \div 64)}})}})

Pending(st, i, cpi) == PendingOf(st, i, cpi, Load(st.cm.t, Off(cpi, 4)) + 256)

\* "Update run count of previous context" on the record runp[i] points to,
\* then "runp[i]=cpi+3": lines 936-946
RunUpdate(st, i, c1) ==
  The({[st |-> [st EXCEPT
                  !.cm.t = The({Store(t1, u.at, u.new[1]) :
                                  t1 \in {Store(@, Off(u.at, 1), u.new[2])}}),
                  !.cm.runp[i] = Off(st.cm.cp0[i], 3),
                  !.seen = Recorded(@, u.rec, u.old[1] = 0, c1)],
        cpi |-> st.cm.cp0[i], rehash |-> TRUE,
        run |-> <<[rec |-> u.rec, old |-> u.old, byte |-> c1, new |-> u.new]>>] :
         u \in {The({[at |-> rp, rec |-> <<rp.b, rp.s>>,
                      old |-> <<Load(st.cm.t, rp), Load(st.cm.t, Off(rp, 1))>>,
                      new |-> RunCount(Load(st.cm.t, rp), Load(st.cm.t, Off(rp, 1)), c1)] :
                       rp \in {st.cm.runp[i]}})}})

\* the last branch of "Update context pointers", lines 919-946
Rehash(st, i, cc, c1, bp) ==
  The({IF bp # 0
       THEN [st |-> s2, cpi |-> s2.cm.cp0[i], rehash |-> TRUE, run |-> <<>>]
       ELSE The({RunUpdate(s3, i, c1) :
                   s3 \in {IF Load(s2.cm.t, Off(s2.cm.cp0[i], 3)) = 2
                           THEN Pending(s2, i, s2.cm.cp0[i]) ELSE s2}}) :
         s2 \in {The({[got.st EXCEPT !.cm.cp0[i] = got.p] : got \in {CMGet(st, i, cc)}})}})

\* "Update model with y", lines 902-909
Updated(st, i, y1, rv) ==
  IF st.cm.cp[i] = Null THEN st
  ELSE The({[st EXCEPT !.cm.t = Store(@, st.cm.cp[i],
                                      IF ns >= 204 /\ RndHit(rv, ns) THEN ns - 4 ELSE ns)] :
              ns \in {nex(Load(st.cm.t, st.cm.cp[i]), y1)}})

\* "Update context pointers", lines 912-947
Select(st, i, cc, c1, bp) ==
  IF bp > 1 /\ Load(st.cm.t, st.cm.runp[i]) = 0
  THEN [st |-> st, cpi |-> Null, rehash |-> FALSE, run |-> <<>>]
  ELSE IF bp = 1 \/ bp = 3 \/ bp = 6
  THEN [st |-> st, cpi |-> Off(st.cm.cp0[i], 1 + (cc % 2)), rehash |-> FALSE, run |-> <<>>]
  ELSE IF bp = 4 \/ bp = 7
  THEN [st |-> st, cpi |-> Off(st.cm.cp0[i], 3 + (cc % 4)), rehash |-> FALSE, run |-> <<>>]
  ELSE Rehash(st, i, cc, c1, bp)

\* the two predictions of lines 949-962 as logged, and "cp[i]=cpi"
Predicted(sel, i, cc, bp, updated, count) ==
  The({[sel.st EXCEPT
          !.cm.cp[i] = sel.cpi,
          !.result = @ + (IF s > 0 THEN 1 ELSE 0),
          !.log = Append(@, [i |-> i, updated |-> updated, count |-> count,
                             cpi |-> sel.cpi, rehash |-> sel.rehash, run |-> sel.run,
                             expect |-> ((Load(sel.st.cm.t, Off(sel.st.cm.runp[i], 1)) + 256)
                                           \div Pow2(8 - bp)) = cc,
                             rc |-> Load(sel.st.cm.t, sel.st.cm.runp[i]), s |-> s])] :
         s \in {IF sel.cpi # Null THEN Load(sel.st.cm.t, sel.cpi) ELSE 0}})

\* the body of the loop of mix1 for context i
Mix1At(st, i, cc, c1, y1, bp, rv) ==
  The({The({Predicted(sel, i, cc, bp, st.cm.cp[i] # Null, Load(st1.cm.t, st1.cm.runp[i])) :
              sel \in {Select(st1, i, cc, c1, bp)}}) :
         st1 \in {Updated(st, i, y1, rv)}})

\* int ContextMap::mix1(Mixer& m, int cc, int c1, int y1), from context i on
RECURSIVE Mix1From(_, _, _, _, _, _, _)
Mix1From(st, i, cc, c1, y1, bp, rv) ==
  IF i >= st.cm.cn THEN [st EXCEPT !.cm.cn = IF bp = 7 THEN 0 ELSE @]
  ELSE The({Mix1From(n, i + 1, cc, c1, y1, bp, rv) :
              n \in {Mix1At(st, i, cc, c1, y1, bp, rv)}})

mix1(st, cc, c1, y1, bp, rv) ==
  The({Mix1From(s0, 0, cc, c1, y1, bp, rv) :
         s0 \in {[st EXCEPT !.result = 0, !.log = <<>>]}})

\* the C calls of set() a model makes on a byte boundary
RECURSIVE SetFrom(_, _)
SetFrom(cm, cx) ==
  IF cm.cn >= cm.C THEN cm
  ELSE The({SetFrom(n, cx) : n \in {ContextMapSet(cm, AddU32(cx, U32Of(cm.cn)))}})

InitCM ==
  /\ IdlePred /\ IdleInst /\ IdleBM /\ IdleHash /\ IdleSM /\ IdleMix /\ IdlePipe /\ IdleArena /\ IdleFeed
  /\ cmap = [cm |-> ContextMapNew(CMem, CMC), seen |-> <<>>, log |-> <<>>,
             result |-> 0, bpos |-> 0, c0 |-> 1, b1 |-> 0]
  /\ \E rv \in RndLows :
       cmop = [name |-> "init", n |-> 0, byte |-> 0, cx |-> U32Zero, rv |-> rv, y |-> 0]

\* PAQ8Perceive of the next bit of byte: the update of c0, b1 and bpos
\* (lines 1351-1379), the set calls on a byte boundary, and mix
DoCMBit(byte, cx) ==
  /\ IF cmap.bpos = 0
     THEN \/ cmop.n < MaxFreeBytes
          \/ /\ cmop.n > 0 /\ cmop.n < MaxFreeBytes + MaxSteadyBytes
             /\ byte = cmop.byte /\ cx = cmop.cx
     ELSE byte = cmop.byte /\ cx = cmop.cx
  /\ LET y   == (byte \div Pow2(7 - cmap.bpos)) % 2
         c0n == cmap.c0 + cmap.c0 + y
         bp  == (cmap.bpos + 1) % 8
         cc  == IF c0n >= 256 THEN 1 ELSE c0n
         c1  == IF c0n >= 256 THEN c0n - 256 ELSE cmap.b1
     IN  /\ \E st1 \in {IF bp = 0 THEN [cmap EXCEPT !.cm = SetFrom(@, cx)] ELSE cmap} :
              \E nxt \in {mix1(st1, cc, c1, y, bp, cmop.rv)} :
                cmap' = [nxt EXCEPT !.bpos = bp, !.c0 = cc, !.b1 = c1]
         /\ cmop' = [cmop EXCEPT !.name = "bit", !.byte = byte, !.cx = cx, !.y = y,
                                 !.n = IF cmap.bpos = 0 THEN @ + 1 ELSE @]
  /\ UNCHANGED nonCMVars

NextCM == \E byte \in CMBytes, cx \in CMKeys : DoCMBit(byte, cx)

SpecCM == InitCM /\ [][NextCM]_vars

-----------------------------------------------------------------------------
(* Claims about ContextMap::mix1, checked under SpecCM *)

\* the pointer the bit position alone selects
ByPosition(e) ==
  LET base == cmap.cm.cp0[e.i]
  IN  IF cmap.bpos \in {1, 3, 6} THEN ~e.rehash /\ e.cpi = Off(base, 1 + (cmap.c0 % 2))
      ELSE IF cmap.bpos \in {4, 7} THEN ~e.rehash /\ e.cpi = Off(base, 3 + (cmap.c0 % 4))
      ELSE e.rehash /\ e.cpi = base

\* C15: for every context, one with run count 0 included, mix1 selects the
\* next bit-history pointer by the new bit position alone: cp0 + 1 + (c0 & 1)
\* at bpos 1, 3, 6; cp0 + 3 + (c0 & 3) at bpos 4, 7; a fresh bucket lookup at
\* bpos 0, 2, 5; so a bit-history state is read at every bit position.
C15_ByPositionAlone ==
  cmop.name = "bit" =>
    \A k \in 1..Len(cmap.log) : ByPosition(cmap.log[k]) /\ cmap.log[k].cpi # Null

\* what the code does: past bpos 1 a context whose run count is 0 gets the
\* null pointer, no lookup is made and mix2 is handed state 0; every other
\* context gets the pointer its bit position selects
PointerAsCoded ==
  cmop.name = "bit" =>
    \A k \in 1..Len(cmap.log) :
      IF cmap.bpos > 1 /\ cmap.log[k].count = 0
      THEN cmap.log[k].cpi = Null /\ ~cmap.log[k].rehash /\ cmap.log[k].s = 0
      ELSE ByPosition(cmap.log[k]) /\ cmap.log[k].cpi # Null

-----------------------------------------------------------------------------
(* The failure counters on their own: SpecFail.                             *)
(* Predictor::update is taken up to line 1386, as under SpecCtx, but the    *)
(* prediction that lines 1389-1406 leave in pr is drawn from both sides of  *)
(* the two places where the folded value crosses 1820, and the predictions  *)
(* and bits of the last calls are kept beside the state.                    *)

MaxFreeFail == 3     \* perceive calls with freely chosen bit and prediction
MaxRunFail == 20     \* perceive calls in all, the later ones repeating the last

\* predictions around the threshold: pr >= 1820 for y = 0, 4095 - pr >= 1820
\* for y = 1
FailPr == {1819, 1820, 2275, 2276}

\* the calls before a start state: none after construction, zero bits each
\* predicted with 2048 after a long input of zero bytes
FailStarts ==
  {[g |-> GlobalInit(0), bits |-> <<>>, prs |-> <<>>],
   [g |-> AfterZeros(0, 16), bits |-> <<0, 0, 0, 0, 0, 0, 0, 0>>,
    prs |-> <<2048, 2048, 2048, 2048, 2048, 2048, 2048, 2048>>]}

InitFail ==
  /\ IdleInst /\ IdleBM /\ IdleHash /\ IdleSM /\ IdleMix /\ IdlePipe /\ IdleCM /\ IdleArena /\ IdleFeed
  /\ \E st \in FailStarts :
       /\ g = st.g
       /\ hist = [bits |-> st.bits, prs |-> st.prs, pos0 |-> st.g.pos]
  /\ apm = APMsNew
  /\ ret = -1
  /\ op = [name |-> "init", npred |-> 0, steady |-> TRUE, p |-> 2048]
  /\ nperc = 0

\* PAQ8Perceive(bit) with p the prediction it ends with
PerceiveFail(bit, p) ==
  /\ \/ nperc < MaxFreeFail
     \/ nperc > 0 /\ nperc < MaxRunFail /\ bit = g.y /\ p = op.p
  /\ g' = [UpdateFails(UpdateContext(SetBit(g, bit))) EXCEPT !.pr = p]
  /\ op' = [name |-> "perceive", npred |-> 0, steady |-> TRUE, p |-> p]
  /\ nperc' = nperc + 1
  /\ hist' = [hist EXCEPT !.bits = Append(@, bit), !.prs = Append(@, g.pr)]
  /\ UNCHANGED <<apm, ret>>
  /\ UNCHANGED nonPredVars

NextFail == \E bit \in {0, 1}, p \in FailPr : PerceiveFail(bit, p)

SpecFail == InitFail /\ [][NextFail]_vars

-----------------------------------------------------------------------------
(* Claims about the failure counters, checked under SpecFail *)

\* the number of 1 bits among the low k bits of n
RECURSIVE Ones(_, _)
Ones(n, k) == IF k = 0 THEN 0 ELSE (n % 2) + Ones(n \div 2, k - 1)

\* the outcome of the k-th call before the last one (k = 0 the last): 1 when
\* the prediction made before it, folded by its bit, is >= 1820; 0 when no
\* such call was made
Outcome(k) ==
  IF Len(hist.bits) - k < 1 THEN 0
  ELSE IF hist.bits[Len(hist.bits) - k] = 1
  THEN (IF hist.prs[Len(hist.prs) - k] \in 0..4095
           /\ 4095 - hist.prs[Len(hist.prs) - k] >= 1820 THEN 1 ELSE 0)
  ELSE (IF hist.prs[Len(hist.prs) - k] >= 1820 THEN 1 ELSE 0)

\* C24: after every perceive call failcount equals the number of 1 bits
\* among the low 8 bits of fails, which are the outcomes of the last 8
\* predictions, so 0 <= failcount <= 8 and the unsigned counter never
\* underflows; the bit shifted into fails is 1 exactly when the previous
\* prediction, folded as pr XOR 4095 when y == 1, is >= 1820
C24_FailCount ==
  nperc > 0 =>
    /\ Hi(g.failcount) = 0
    /\ Lo(g.failcount) = Ones(Lo(g.fails), 8)
    /\ Lo(g.failcount) \in 0..8
    /\ \A k \in 0..7 : (Lo(g.fails) \div Pow2(k)) % 2 = Outcome(k)
    /\ Lo(g.fails) % 2 = 1 <=>
         (IF g.y = 1 THEN 4095 - hist.prs[Len(hist.prs)]
          ELSE hist.prs[Len(hist.prs)]) >= 1820

\* C24 witness: a call that shifts a 0 in while a 1 leaves the window, the
\* count going down to 2 with ones and zeros both among the last 8 outcomes
C24_Witness ==
  /\ nperc >= 9
  /\ Lo(g.fails) % 2 = 0
  /\ (Lo(g.fails) \div 256) % 2 = 1
  /\ Lo(g.failcount) = 2


-----------------------------------------------------------------------------
(* The RunContextMap with a filled window: SpecBH.                          *)
(* The table is brought by RunContextMap::set calls to states where the     *)
(* window of element 0 holds 0, 3 or 7 checksums with run counts that make  *)
(* the last two elements tie or differ either way; then set is called with  *)
(* checksums present and absent, in that window and in the window of        *)
(* element 1, which overlaps it and ends inside the table.                  *)

MaxBHSets == 3       \* RunContextMap::set calls of a run

\* the hash whose window starts at element i and whose checksum is c
KeyOf(i, c) == <<XorN(c, LoFor(i), 16), LoFor(i)>>

\* the map after the set calls of seq, the global b1 being byte at each
RECURSIVE RcmAfter(_, _, _)
RcmAfter(r, seq, byte) ==
  IF seq = <<>> THEN r
  ELSE The({RcmAfter(n, Tail(seq), byte) : n \in {RcmSet(r, Head(seq), byte).r}})

\* checksums set one after the other in the window of element 0: none, three,
\* seven with equal counts, seven with the oldest counted twice, seven with
\* the second oldest counted twice
BHFills ==
  {<<>>, <<1, 2, 3>>, <<1, 2, 3, 4, 5, 6, 7>>, <<1, 1, 2, 3, 4, 5, 6, 7>>,
   <<1, 2, 2, 3, 4, 5, 6, 7>>}

BHStarts ==
  {RcmAfter(RcmNew(ZeroElem), [k \in DOMAIN f |-> KeyOf(0, f[k])], 5) : f \in BHFills}

\* hashes of the set calls: checksums of the fills and new ones in the window
\* of element 0, two in the window of element 1
BHKeys == {KeyOf(0, c) : c \in {1, 2, 6, 7, 8, 9}} \cup {KeyOf(1, c) : c \in {8, 10}}

InitBH ==
  /\ IdlePred /\ IdleInst /\ IdleBM /\ IdleSM /\ IdleMix /\ IdlePipe /\ IdleCM /\ IdleArena /\ IdleFeed
  /\ eb = EZero
  /\ rcm \in BHStarts
  /\ hop = [kind |-> "BH", name |-> "new", n |-> MaxBHOps - MaxBHSets, key |-> <<>>,
            ret |-> -1, j |-> 0, pre |-> rcm.t, prev |-> NoLookup]

NextBH == \E cx \in BHKeys, byte \in RunBytes : DoRcmSet(cx, byte)

SpecBH == InitBH /\ [][NextBH]_vars

-----------------------------------------------------------------------------
(* Claims about the RunContextMap table, checked under SpecBH *)

\* the checksum "(i>>16^i)&0xffff" of the latest lookup
BHChk == XorN(Hi(hop.key), Lo(hop.key), 16)

\* position 5 is dropped when position 6 has the strictly greater priority
\* byte, position 6 otherwise
Dropped ==
  IF hop.pre[hop.ret + 6].pri > hop.pre[hop.ret + 5].pri THEN 5 ELSE 6

\* the table a lookup leaves when it puts front at position 0 and shifts the
\* elements at positions 0..d-1 back by one
MovedToFront(front, d) ==
  [k \in DOMAIN hop.pre |->
     IF k = hop.ret THEN front
     ELSE IF k > hop.ret /\ k <= hop.ret + d THEN hop.pre[k - 1]
     ELSE hop.pre[k]]

\* C23: a BH<4> lookup that finds or installs its element at probe position
\* j > 0 moves it to position 0 of the 7-element window and shifts the
\* elements formerly at positions 0..j-1 back by one, order and contents
\* kept; when all 7 positions hold other checksums the element dropped is
\* the one at position 6, or the one at position 5 if position 6's priority
\* byte is strictly greater (the later of the two on a tie), and the new
\* element starts with count and byte both 0
C23_MoveToFront ==
  hop.kind = "BH" /\ hop.name = "set" =>
    /\ hop.ret = WindowStart(hop.key)
    /\ hop.j \in 1..(BHProbes - 1) =>
         /\ \A k \in 0..(hop.j - 1) :
              hop.pre[hop.ret + k].pri # 0 /\ hop.pre[hop.ret + k].chk # BHChk
         /\ \/ hop.pre[hop.ret + hop.j].pri = 0
            \/ hop.pre[hop.ret + hop.j].chk = BHChk
         /\ rcm.t = MovedToFront([hop.pre[hop.ret + hop.j] EXCEPT !.chk = BHChk], hop.j)
    /\ hop.j = BHProbes =>
         /\ \A k \in 0..(BHProbes - 1) :
              hop.pre[hop.ret + k].pri # 0 /\ hop.pre[hop.ret + k].chk # BHChk
         /\ rcm.t = MovedToFront([chk |-> BHChk, pri |-> 0, val |-> 0], Dropped)
    /\ hop.j = 0 => rcm.t = [hop.pre EXCEPT ![hop.ret].chk = BHChk]

\* C23 witness: a set call whose lookup found the window of element 0 full
\* of other checksums, position 6 with the greater count, and dropped
\* position 5
C23_Witness ==
  /\ hop.kind = "BH" /\ hop.name = "set" /\ hop.j = BHProbes /\ hop.ret = 0
  /\ hop.pre[6].pri > hop.pre[5].pri
  /\ rcm.t[6] = hop.pre[6] /\ rcm.t[5] = hop.pre[4]
  /\ rcm.t[0] = [chk |-> BHChk, pri |-> 0, val |-> 0]

-----------------------------------------------------------------------------
(* The static ContextMaps and their arenas: SpecArena.                      *)
(* PAQ8Init sets level; each model's static ContextMap is constructed when  *)
(* the model is first called, which is in the first PAQ8Perceive:           *)
(* contextModel2's cm always, those of wordModel, sparseModel and           *)
(* recordModel from level 4 on.  NDEBUG is defined (line 30), so the        *)
(* constructor's assert does nothing.  Afterwards bucket indices            *)
(* "(cxt[i]+off)&Sz" are computed for hashes of various bit patterns.       *)

Levels == 0..9
MaxBuckets == 2      \* bucket indices computed in a run

\* #define MEM (0x10000<<level)
MEM(level) == Pow2(16 + level)

\* the constructor's test "m>=64 && (m&m-1)==0"
IsPow2(m) == m > 0 /\ AndN(m, m - 1, 31) = 0

\* a ContextMap as its constructor leaves it, with the size of the array
\* t(m>>6) and the place of its declaration
Static(model, name, m, c) ==
  [model |-> model, name |-> name, m |-> m, size |-> m \div 64,
   cm |-> ContextMapNew(m, c)]

\* the declarations of lines 1235, 1019, 1189 and 1144, in the order the
\* first call of contextModel2 reaches them
Constructed(level) ==
  <<Static("contextModel2", "cm", MEM(level) * 31, 7)>>
  \o (IF level >= 4
      THEN <<Static("wordModel", "cm", MEM(level) * 31, 46),
             Static("sparseModel", "cn", MEM(level) * 2, 5),
             Static("recordModel", "cm", 32768 \div 4, 2),
             Static("recordModel", "cn", 32768 \div 2, 5),
             Static("recordModel", "co", 32768, 4),
             Static("recordModel", "cp", 32768 * 2, 3),
             Static("recordModel", "cq", 32768 * 4, 3)>>
      ELSE <<>>)

\* hashes cxt[i]+off: all bits clear, all bits set, single bits and mixed
ArenaKeys ==
  {<<0, 0>>, <<65535, 65535>>, <<0, 1024>>, <<0, 32768>>, <<8, 0>>, <<511, 64511>>,
   <<4660, 22136>>}

\* the bucket "(cxt[i]+off)&Sz" of a hash x
BucketOf(st, x) == NatOf(AndU32(x, U32Of(st.cm.Sz)))

InitArena ==
  /\ IdlePred /\ IdleInst /\ IdleBM /\ IdleHash /\ IdleSM /\ IdleMix /\ IdlePipe /\ IdleFeed
  /\ IdleCM
  /\ \E level \in Levels : arena = [level |-> level, maps |-> <<>>]
  /\ arop = [name |-> "init", n |-> 0, k |-> 0, x |-> <<0, 0>>, bucket |-> 0]

\* the first PAQ8Perceive: the statics are constructed
DoConstruct ==
  /\ arena.maps = <<>>
  /\ arena' = [arena EXCEPT !.maps = Constructed(arena.level)]
  /\ arop' = [arop EXCEPT !.name = "construct"]
  /\ UNCHANGED nonArenaVars

\* a lookup in map k indexes the bucket of hash x
DoBucket(k, x) ==
  /\ k \in DOMAIN arena.maps
  /\ arop.n < MaxBuckets
  /\ arop' = [name |-> "bucket", n |-> arop.n + 1, k |-> k, x |-> x,
              bucket |-> BucketOf(arena.maps[k], x)]
  /\ UNCHANGED arena
  /\ UNCHANGED nonArenaVars

NextArena ==
  \/ DoConstruct
  \/ \E k \in 1..8, x \in ArenaKeys : DoBucket(k, x)

SpecArena == InitArena /\ [][NextArena]_vars

-----------------------------------------------------------------------------
(* Claims about the arenas, checked under SpecArena *)

\* bucket b of a map is the index of some hash
Reachable(st, b) == AndN(b, st.cm.Sz, 31) = b

\* the buckets with a single bit set that the array t holds
OneBitBuckets(st) == {Pow2(j) : j \in {i \in 0..30 : Pow2(i) < st.size}}

\* C22: every ContextMap the predictor constructs, at every level 0..9, has
\* an arena size m that is a power of two and at least 64, so that the mask
\* Sz = (m >> 6) - 1 has all low bits set and every one of the m/64 buckets
\* is the index of some hash
C22_PowerOfTwo ==
  \A k \in DOMAIN arena.maps :
    /\ arena.maps[k].m >= 64
    /\ IsPow2(arena.maps[k].m)
    /\ arena.maps[k].cm.Sz + 1 = arena.maps[k].size
    /\ \A b \in OneBitBuckets(arena.maps[k]) : Reachable(arena.maps[k], b)

\* the two maps declared with MEM*31
Mem31(st) == st.model \in {"contextModel2", "wordModel"} /\ st.name = "cm"

\* what the code guarantees: the maps of sparseModel and recordModel have
\* power-of-two arenas; the two declared with MEM*31 have 31 * 2^(10+level)
\* buckets under a mask with bit 10+level clear, so that bucket
\* 2^(10+level) is never indexed; every index computed lies inside t
ArenaAsCoded ==
  /\ \A k \in DOMAIN arena.maps :
       IF Mem31(arena.maps[k])
       THEN /\ arena.maps[k].size = 31 * Pow2(10 + arena.level)
            /\ ~IsPow2(arena.maps[k].m)
            /\ arena.maps[k].cm.Sz = 30 * Pow2(10 + arena.level) + Pow2(10 + arena.level) - 1
            /\ ~Reachable(arena.maps[k], Pow2(10 + arena.level))
            /\ \A x \in ArenaKeys :
                 (BucketOf(arena.maps[k], x) \div Pow2(10 + arena.level)) % 2 = 0
       ELSE /\ arena.maps[k].m >= 64 /\ IsPow2(arena.maps[k].m)
            /\ \A b \in OneBitBuckets(arena.maps[k]) : Reachable(arena.maps[k], b)
  /\ arop.name = "bucket" =>
       /\ arop.bucket >= 0 /\ arop.bucket < arena.maps[arop.k].size
       /\ Reachable(arena.maps[arop.k], arop.bucket)


-----------------------------------------------------------------------------
(* The inputs written to the Mixer in one bit: SpecFeed.                    *)
(* Of "static Mixer m(456, ...)" and its child Mixer(6, 1, 1) only N, nx,   *)
(* ncxt and the highest index of tx written since update() are kept; of     *)
(* each ContextMap only C and cn, the number of set calls since the last    *)
(* bpos 7, which is the number of contexts mix1 loops over.  The values     *)
(* added do not bear on the counts.                                         *)

MixerN == 456        \* N of "static Mixer m(456, ...)", line 1237
MaxBitsFeed == 17    \* PAQ8Perceive calls of a run

\* Mixer(n, ...): N = (n+7)&-8, nx = 0
TxNew(n) == [N |-> ((n + 7) \div 8) * 8, nx |-> 0, ncxt |-> 0, hi |-> -1]

\* k successive add calls, and k successive mul calls, each "tx[nx++]=..."
TxAddK(m, k) ==
  IF k <= 0 THEN m ELSE [m EXCEPT !.hi = Max(@, m.nx + k - 1), !.nx = @ + k]
TxMulK(m, k) ==
  IF k <= 0 THEN m ELSE [m EXCEPT !.hi = Max(@, m.nx + k - 1), !.nx = @ + k]

\* "while (nx&7) tx[nx++]=0"
TxPad(m) == TxAddK(m, (8 - (m.nx % 8)) % 8)

\* the inputs mix2 adds: 5 when cxtfl is nonzero, 4 otherwise
Mix2Adds_five(fl) == 5
Mix2Adds(fl) == IF fl # 0 THEN 5 ELSE 4

\* ContextMap::set counted: "int i=cn++"
CnSet(st, map, k) == [st EXCEPT !.maps[map].cn = @ + k]

\* ContextMap::mix counted: for each of the cn contexts one input of the run
\* model and those of mix2; "if (bpos==7) cn=0"
CnMix(st, map) ==
  [st EXCEPT !.m = TxAddK(@, st.maps[map].cn * (1 + Mix2Adds(st.cxtfl))),
             !.maps[map].cn = IF st.bpos = 7 THEN 0 ELSE @]

\* wordModel: 46 cm.set calls on a byte boundary, cm.mix
wordModelFeed(st) ==
  The({CnMix(s1, "word.cm") : s1 \in {IF st.bpos = 0 THEN CnSet(st, "word.cm", 46) ELSE st}})

\* sparseModel: 5 cn.set calls on a byte boundary, cn.mix, and one input
\* from each of scm1..scma
sparseModelFeed(st) ==
  The({[s2 EXCEPT !.m = TxAddK(@, 10)] :
         s2 \in {The({CnMix(s1, "sparse.cn") :
                        s1 \in {IF st.bpos = 0 THEN CnSet(st, "sparse.cn", 5) ELSE st}})}})

\* recordModel: 2, 5, 4, 3 and 3 set calls on a byte boundary; co and cp
\* mixed, then cm, cn, cq with cxtfl = 0
recordModelFeed(st) ==
  The({The({The({The({The({The({[s6 EXCEPT !.cxtfl = 3] :
    s6 \in {CnMix(s5, "record.cq")}}) :
    s5 \in {CnMix(s4, "record.cn")}}) :
    s4 \in {CnMix([s3 EXCEPT !.cxtfl = 0], "record.cm")}}) :
    s3 \in {CnMix(s2, "record.cp")}}) :
    s2 \in {CnMix(s1, "record.co")}}) :
    s1 \in {IF st.bpos = 0
            THEN CnSet(CnSet(CnSet(CnSet(CnSet(st, "record.cm", 2), "record.cn", 5),
                                   "record.co", 4), "record.cp", 3), "record.cq", 3)
            ELSE st}})

\* the rescale step of lines 1285-1293 after cm.mix, qq being nx before it:
\* the state afterwards with the values of zz and of nx before the step
Rescale(st, qq) ==
  The({[st EXCEPT !.m = TxMulK([@ EXCEPT !.nx = qq + zz * 3], 4 * zz),
                  !.zz = zz, !.before = st.m.nx, !.qq = qq] :
         zz \in {CDiv(st.m.nx - qq, 7)}})

\* m.p(): the padding, mp->update2(), one mp->add per selected context and
\* the padding of mp->p()
TxP(st) ==
  [st EXCEPT !.peak = st.m.nx,
             !.m = TxPad(@),
             !.mp = TxPad(TxAddK([@ EXCEPT !.nx = 0, !.hi = -1], st.m.ncxt))]

\* the part of contextModel2 from the models on: lines 1295-1328
FeedModels(st) ==
  The({TxP([s4 EXCEPT !.m.ncxt = @ + 6]) :
         s4 \in {IF st.level >= 4
                 THEN The({recordModelFeed(s3) :
                             s3 \in {The({sparseModelFeed(s2) :
                                            s2 \in {wordModelFeed(st)}})}})
                 ELSE st}})

\* int contextModel2(), lines 1251-1328
contextModel2Feed(st) ==
  The({The({The({FeedModels(s3) :
    s3 \in {Rescale(s2, s1.m.nx)}}) :
    s2 \in {CnMix(s1, "cm")}}) :
    s1 \in {[(IF st.bpos = 0 THEN CnSet(st, "cm", 7) ELSE st) EXCEPT
               !.m = TxAddK([@ EXCEPT !.nx = 0, !.ncxt = 0, !.hi = -1], 1 + 3)]}})

\* the static ContextMaps by model, with C and cn = 0 as constructed
FeedMaps ==
  [map \in {"cm", "word.cm", "sparse.cn", "record.cm", "record.cn", "record.co",
            "record.cp", "record.cq"} |->
     [C |-> CASE map = "cm" -> 7 [] map = "word.cm" -> 46 [] map = "sparse.cn" -> 5
              [] map = "record.cm" -> 2 [] map = "record.cn" -> 5
              [] map = "record.co" -> 4 [] map = "record.cp" -> 3
              [] map = "record.cq" -> 3,
      cn |-> 0]]

\* the counts after PAQ8Init(level)
FeedNew(level) ==
  [level |-> level, bpos |-> 0, y |-> 0, cxtfl |-> 3,
   m |-> TxNew(MixerN), mp |-> TxNew(MixerS), maps |-> FeedMaps,
   zz |-> 0, before |-> 0, qq |-> 0, peak |-> 0]

InitFeed ==
  /\ IdlePred /\ IdleInst /\ IdleBM /\ IdleHash /\ IdleSM /\ IdleMix /\ IdlePipe
  /\ IdleCM /\ IdleArena
  /\ \E level \in Levels : feed = FeedNew(level)
  /\ feedop = [name |-> "init", n |-> 0]

\* PAQ8Perceive(bit): "bpos=(bpos+1)&7" and contextModel2
DoFeed(bit) ==
  /\ feedop.n < MaxBitsFeed
  /\ \E s1 \in {[feed EXCEPT !.y = bit, !.bpos = (@ + 1) % 8]} :
       feed' = contextModel2Feed(s1)
  /\ feedop' = [name |-> "perceive", n |-> feedop.n + 1]
  /\ UNCHANGED nonFeedVars

NextFeed == \E bit \in {0, 1} : DoFeed(bit)

SpecFeed == InitFeed /\ [][NextFeed]_vars

-----------------------------------------------------------------------------
(* Claims about the mixer inputs, checked under SpecFeed *)

\* C21: on every bit and for every level 0..9 the inputs written between
\* Mixer::update() and Mixer::p() stay below N = 456: every add() and mul()
\* writes at an index nx < N (at most 454 inputs), the rescale step of
\* contextModel2 leaves nx as it was before it, the padding of p() stays
\* within tx[N-1], and the child mixer receives at most 6 inputs for N = 8
C21_InputsFit ==
  feedop.name = "perceive" =>
    /\ feed.m.N = MixerN
    /\ feed.peak <= 1 + 3 + 7 * 6 + 46 * 6 + 5 * 6 + 10 + 7 * 6 + 10 * 5
    /\ 1 + 3 + 7 * 6 + 46 * 6 + 5 * 6 + 10 + 7 * 6 + 10 * 5 = 454
    /\ feed.m.hi < feed.m.N
    /\ feed.m.nx <= feed.m.N
    /\ feed.m.nx = ((feed.peak + 7) \div 8) * 8
    /\ feed.before = feed.qq + 7 * feed.zz
    /\ feed.mp.N = 8
    /\ feed.m.ncxt <= 6
    /\ feed.mp.hi < feed.mp.N /\ feed.mp.nx = 8
    /\ \A map \in DOMAIN feed.maps : feed.maps[map].cn <= feed.maps[map].C

\* C21 witness: a bit at level 4 or above on which all 454 inputs are
\* written, the rescale step covers the 42 inputs of cm and the padding
\* fills tx up to its last element
C21_Witness ==
  /\ feedop.name = "perceive" /\ feed.level >= 4
  /\ feed.peak = 454 /\ feed.zz = 6 /\ feed.before = 4 + 42
  /\ feed.m.hi = MixerN - 1
  /\ feed.mp.hi = 7


\* what the code does: before the first byte boundary no context is set, so
\* only add(64), the three RunContextMaps and, from level 4 on, the ten
\* SmallStationaryContextMaps write inputs; afterwards the counts are the
\* same on every bit
FeedAsCoded ==
  feedop.name = "perceive" =>
    /\ feed.qq = 4
    /\ feed.peak = IF feedop.n < 8 THEN (IF feed.level >= 4 THEN 14 ELSE 4)
                   ELSE (IF feed.level >= 4 THEN 454 ELSE 46)
    /\ feed.zz = IF feedop.n < 8 THEN 0 ELSE 6
    /\ feed.mp.hi = 7 /\ feed.m.ncxt = 6
    /\ feed.cxtfl = 3


=============================================================================
